---------------------------- MODULE Spec2Model ----------------------------
(***************************************************************************)
(* A model of the optimisation core of the nesfab compiler                 *)
(* (src/src/o_unused.cpp): the assembly graph (asm_node_t / asm_graph_t),  *)
(* its builder and optimiser, the SSA dead-code passes, block ordering and *)
(* liveness.                                                               *)
(***************************************************************************)
EXTENDS Integers, Sequences, FiniteSets, TLC

(***************************************************************************)
(* Bounds of the model.                                                    *)
(***************************************************************************)
\* Longest generated instruction stream handed to append_code.
MaxStream == 3
\* Number of SSA nodes of a generated IR.
MaxSsa == 2
\* Number of instructions in a block of a generated function body.
MaxCode == 1

(***************************************************************************)
(* Generic helpers.                                                        *)
(***************************************************************************)
Range(s) == { s[i] : i \in 1..Len(s) }

Min2(a, b) == IF a < b THEN a ELSE b

\* Number of positions of sequence s holding x (std::count).
RECURSIVE CountIn(_, _)
CountIn(s, x) ==
    IF s = << >> THEN 0
    ELSE (IF Head(s) = x THEN 1 ELSE 0) + CountIn(Tail(s), x)

\* Index of the first position of s holding x, 0 when absent (std::find).
RECURSIVE FindFrom(_, _, _)
FindFrom(s, x, i) ==
    IF i > Len(s) THEN 0
    ELSE IF s[i] = x THEN i ELSE FindFrom(s, x, i + 1)

FindFirst(s, x) == FindFrom(s, x, 1)

\* std::swap(v[i], v.back()); v.pop_back();
SwapPop(s, i) ==
    LET n == Len(s) IN
    [ k \in 1..(n - 1) |-> IF k = i THEN s[n] ELSE s[k] ]

\* The first n elements of s / the last n elements of s.
Take(s, n) == SubSeq(s, 1, n)
LastN(s, n) == SubSeq(s, Len(s) - n + 1, Len(s))

(***************************************************************************)
(* Instructions (asm_inst_t) and the op table.                             *)
(***************************************************************************)
NULL == 0          \* nullptr / LOC_NONE / ASM_NULL

Inst(o, a) == [op |-> o, arg |-> a]

NoInst == Inst("ASM_NULL", NULL)             \* a value-initialised asm_inst_t
JmpInst == Inst("JMP_ABSOLUTE", NULL)        \* { .op = JMP_ABSOLUTE }

\* The label that the graph is constructed with (m_entry_label).
EntryLabel == 1
Labels == {EntryLabel, 2}

\* label.lclass() == LOC_CFG_LABEL and label.cfg_node(): every label but the
\* entry label names a CFG node, which is identified by the label's number.
IsCfgLabel(lbl) == lbl # EntryLabel
CfgOf(lbl) == lbl

\* op_flags(op) & ASMF_JUMP, ASMF_BRANCH, ASMF_SWITCH; is_return(inst).
IsJump(op) == op = "JMP_ABSOLUTE"
IsBranchOp(op) == op \in {"BEQ_RELATIVE", "BNE_RELATIVE"}
IsSwitchOp(op) == op = "SWITCH"
IsReturn(inst) == inst.op = "RTS_IMPLIED"

\* invert_branch(op): the branch on the opposite condition.
InvertBranch(op) ==
    CASE op = "BEQ_RELATIVE" -> "BNE_RELATIVE"
      [] op = "BNE_RELATIVE" -> "BEQ_RELATIVE"
      [] OTHER -> "ASM_NULL"

\* tail_call_op(op): the jump that replaces a call followed by a return.
TailCallOp(op) == IF op = "JSR_ABSOLUTE" THEN "JMP_ABSOLUTE" ELSE "ASM_NULL"

(***************************************************************************)
(* The assembly graph.  A graph value G is a record                        *)
(*   nodes          node_pool: the arena, indexed by node id; a node is    *)
(*                  never freed, prune only unlinks it from the list       *)
(*   list           the intrusive list of live nodes, in order             *)
(*   label_map      label -> node id                                       *)
(*   to_lookup      the deferred lookups of append_code                    *)
(*   err            the message of the exception thrown, "" when none      *)
(* and a node is [label, code, outputs, inputs, output_inst, cfg,          *)
(* original_order]; an edge is [node, case_value], node = NULL for an edge *)
(* whose lookup is still deferred.                                         *)
(***************************************************************************)
Edge(n, c) == [node |-> n, case_value |-> c]

NewNode(lbl, ord) ==
    [ label |-> lbl, code |-> << >>, outputs |-> << >>, inputs |-> << >>,
      output_inst |-> NoInst, cfg |-> NULL, original_order |-> ord ]

EmptyGraph ==
    [ nodes |-> << >>, list |-> << >>, label_map |-> << >>,
      to_lookup |-> << >>, err |-> "" ]

\* label_map is kept as a sequence of <<label, node>> pairs.
LabelLookup(G, lbl) ==
    LET hits == { i \in 1..Len(G.label_map) : G.label_map[i][1] = lbl } IN
    IF hits = {} THEN NULL ELSE G.label_map[CHOOSE i \in hits : TRUE][2]

Back(G) == G.list[Len(G.list)]          \* list.back()

\* asm_node_t::push_output
push_output(G, n, o) ==
    LET G1 == [G EXCEPT !.nodes[n].outputs = Append(@, o)] IN
    IF o.node # NULL
    THEN [G1 EXCEPT !.nodes[o.node].inputs = Append(@, n)]
    ELSE G1

\* remove_outputs_input that pops the last input of the output, whichever
\* node it is.
remove_outputs_input_back(G, n, i) ==
    LET output == G.nodes[n].outputs[i].node IN
    IF output # NULL
    THEN [G EXCEPT !.nodes[output].inputs = SubSeq(@, 1, Len(@) - 1)]
    ELSE G

\* asm_node_t::remove_outputs_input (i is 1-based here)
remove_outputs_input(G, n, i) ==
    LET output == G.nodes[n].outputs[i].node IN
    IF output # NULL
    THEN LET it == FindFirst(G.nodes[output].inputs, n) IN
         [G EXCEPT !.nodes[output].inputs = SwapPop(@, it)]
    ELSE G

\* asm_node_t::remove_output
remove_output(G, n, i) ==
    LET G1 == remove_outputs_input(G, n, i) IN
    [G1 EXCEPT !.nodes[n].outputs = SwapPop(@, i)]

\* replace_output without the push onto with->m_inputs.
replace_output_no_push(G, n, i, with) ==
    [remove_outputs_input(G, n, i) EXCEPT !.nodes[n].outputs[i].node = with]

\* asm_node_t::replace_output
replace_output(G, n, i, with) ==
    LET G1 == remove_outputs_input(G, n, i)
        G2 == IF with # NULL
              THEN [G1 EXCEPT !.nodes[with].inputs = Append(@, n)]
              ELSE G1
    IN [G2 EXCEPT !.nodes[n].outputs[i].node = with]

\* asm_node_t::find_output: the first output edge that points at `to`.
find_output(G, n, to) ==
    LET outs == G.nodes[n].outputs IN
    CHOOSE i \in 1..Len(outs) :
        /\ outs[i].node = to
        /\ \A k \in 1..(i - 1) : outs[k].node # to

\* asm_node_t::is_switch
is_switch(G, n) == IsSwitchOp(G.nodes[n].output_inst.op)

\* asm_graph_t::push_back.  The new node's id is returned as Len(nodes).
push_back(G, lbl, succeed) ==
    LET id == Len(G.nodes) + 1
        G1 == [G EXCEPT !.nodes = Append(@, NewNode(lbl, id - 1))]
        G2 == IF succeed /\ Len(G.list) > 0
              THEN LET G2a == push_output(G1, Back(G), Edge(id, -1)) IN
                   [G2a EXCEPT !.nodes[id].cfg = G.nodes[Back(G)].cfg]
              ELSE G1
    IN IF lbl # NULL /\ LabelLookup(G, lbl) # NULL
       THEN [G2 EXCEPT !.err = "Duplicate label."]
       ELSE LET G3 == IF lbl # NULL
                      THEN [G2 EXCEPT !.label_map = Append(@, <<lbl, id>>)]
                      ELSE G2
            IN [G3 EXCEPT !.list = Append(@, id)]

\* asm_graph_t::asm_graph_t
NewGraph == push_back(EmptyGraph, NULL, FALSE)

(***************************************************************************)
(* asm_graph_t::append_code and finish_appending.                          *)
(***************************************************************************)
\* The lambda delay_lookup of append_code.  to_lookup records the index the
\* new output slot will have (outputs().size() before the push, 0-based in
\* the code, 1-based here).
delay_lookup(G, n, lbl, case_value) ==
    LET G1 == [G EXCEPT !.to_lookup =
                   Append(@, [ node |-> n,
                               output |-> Len(G.nodes[n].outputs) + 1,
                               label |-> lbl ])]
    IN push_output(G1, n, Edge(NULL, case_value))

\* A switch instruction: its argument names the cfg node whose table it
\* jumps through, at an offset.
SwitchInst(cfg, off) == [op |-> "SWITCH", arg |-> cfg, offset |-> off]

\* switch_tables.mapped(cfg): the labels of the switches of cfg nodes 2 and
\* 4, whose cases go to two blocks, and of any other cfg node, whose cases
\* go to one; and branch->input(i + 1).whole(): the case values of its
\* SSA_switch_full, which leave a value between them unused for every cfg
\* node but 4.
switch_table(cfg) ==
    IF cfg = 2 THEN << EntryLabel, 2 >>
    ELSE IF cfg = 4 THEN << EntryLabel, 4 >>
    ELSE << EntryLabel, EntryLabel >>

switch_cases(cfg) == IF cfg = 4 THEN << 2, 3 >> ELSE << 1, 3 >>

\* for(i < switch_table->size()) delay_lookup(node, table[i], case i)
RECURSIVE switch_lookups(_, _, _, _)
switch_lookups(G, n, cfg, i) ==
    IF i > Len(switch_table(cfg)) THEN G
    ELSE switch_lookups(
             delay_lookup(G, n, switch_table(cfg)[i], switch_cases(cfg)[i]),
             n, cfg, i + 1)

\* The branch case of append_code that never looks at the next instruction.
append_branch_alone(G, s, i) ==
    LET inst == s[i]
        node == Back(G)
        G1 == delay_lookup([G EXCEPT !.nodes[node].output_inst = inst],
                           node, inst.arg, -1)
    IN [ g |-> push_back(G1, NULL, TRUE), i |-> i + 1 ]

\* else if(op_flags(inst.op) & ASMF_BRANCH): the branch ends the block; the
\* inverse branch that follows it is taken with it.
append_branch(G, s, i) ==
    LET inst == s[i]
        node == Back(G)
        G1 == delay_lookup([G EXCEPT !.nodes[node].output_inst = inst],
                           node, inst.arg, -1)
    IN IF i + 1 <= Len(s) /\ inst.op = InvertBranch(s[i + 1].op)
       THEN [ g |-> push_back(delay_lookup(G1, node, s[i + 1].arg, -1),
                              NULL, FALSE),
              i |-> i + 2 ]
       ELSE [ g |-> push_back(G1, NULL, TRUE), i |-> i + 1 ]

\* One iteration of the loop of append_code at stream position i; the
\* result is the graph and the position of the next instruction.
AppendInst(G, s, i) ==
    LET inst == s[i]
        node == Back(G)
    IN
    IF inst.op = "ASM_LABEL" THEN
        LET G1 == push_back([G EXCEPT !.nodes[node].output_inst = JmpInst],
                            inst.arg, TRUE)
        IN [ g |-> IF G1.err = "" /\ IsCfgLabel(inst.arg)
                   THEN [G1 EXCEPT !.nodes[Len(G1.nodes)].cfg = CfgOf(inst.arg)]
                   ELSE G1,
             i |-> i + 1 ]
    ELSE IF IsReturn(inst) THEN
        [ g |-> push_back([G EXCEPT !.nodes[node].code = Append(@, inst)],
                          NULL, FALSE),
          i |-> i + 1 ]
    ELSE IF IsSwitchOp(inst.op) THEN
        [ g |-> push_back(
                    [switch_lookups(G, node, inst.arg, 1)
                       EXCEPT !.nodes[node].output_inst = inst],
                    NULL, FALSE),
          i |-> i + 1 ]
    ELSE IF IsJump(inst.op) THEN
        [ g |-> push_back(
                    delay_lookup([G EXCEPT !.nodes[node].output_inst = inst],
                                 node, inst.arg, -1),
                    NULL, FALSE),
          i |-> i + 1 ]
    ELSE IF IsBranchOp(inst.op) THEN append_branch(G, s, i)
    ELSE IF inst.op # "ASM_PRUNED" THEN
        [ g |-> [G EXCEPT !.nodes[node].code = Append(@, inst)], i |-> i + 1 ]
    ELSE [ g |-> G, i |-> i + 1 ]

RECURSIVE AppendLoop(_, _, _)
AppendLoop(G, s, i) ==
    IF i > Len(s) \/ G.err # "" THEN G
    ELSE LET r == AppendInst(G, s, i) IN AppendLoop(r.g, s, r.i)

\* asm_graph_t::append_code(begin, end)
append_code(G, s) == AppendLoop(G, s, 1)

\* fmt("Missing label % in assembly.", label)
MissingLabel(lbl) == "Missing label " \o ToString(lbl) \o " in assembly."

\* finish_appending that passes over a label that label_map lacks.
RECURSIVE FinishLoopLenient(_, _)
FinishLoopLenient(G, k) ==
    IF k > Len(G.to_lookup) THEN [G EXCEPT !.to_lookup = << >>]
    ELSE LET lookup == G.to_lookup[k]
             target == LabelLookup(G, lookup.label)
         IN IF target # NULL
            THEN FinishLoopLenient(replace_output(G, lookup.node, lookup.output,
                                                  target), k + 1)
            ELSE FinishLoopLenient(G, k + 1)

finish_appending_lenient(G) == FinishLoopLenient(G, 1)

\* asm_graph_t::finish_appending: the lookups are resolved in order; the
\* first label that label_map lacks throws and leaves the rest unresolved.
RECURSIVE FinishLoop(_, _)
FinishLoop(G, k) ==
    IF k > Len(G.to_lookup) THEN [G EXCEPT !.to_lookup = << >>]
    ELSE LET lookup == G.to_lookup[k]
             target == LabelLookup(G, lookup.label)
         IN IF target # NULL
            THEN FinishLoop(replace_output(G, lookup.node, lookup.output,
                                           target), k + 1)
            ELSE [G EXCEPT !.err = MissingLabel(lookup.label)]

finish_appending(G) == FinishLoop(G, 1)

(***************************************************************************)
(* asm_graph_t::prune and the passes of optimize.  A pass returns          *)
(* [g, changed].                                                           *)
(***************************************************************************)
RECURSIVE RemoveAllOutputs(_, _)
RemoveAllOutputs(G, n) ==
    IF Len(G.nodes[n].outputs) = 0 THEN G
    ELSE RemoveAllOutputs(remove_output(G, n, 1), n)

\* asm_graph_t::prune: unlink every output, erase the node from the list.
prune(G, n) ==
    LET G1 == RemoveAllOutputs(G, n) IN
    [G1 EXCEPT !.list = SelectSeq(@, LAMBDA m : m # n)]

\* The redirect loop of o_remove_stubs: while `it` has an input, its first
\* input's first edge to `it` is pointed at `output`.
RECURSIVE RedirectInputs(_, _, _)
RedirectInputs(G, it, output) ==
    IF Len(G.nodes[it].inputs) = 0 THEN G
    ELSE LET input == G.nodes[it].inputs[1] IN
         RedirectInputs(
             replace_output(G, input, find_output(G, input, it), output),
             it, output)

\* One iteration of the loop of o_remove_stubs that does not look at the
\* code of the block.
stubs_iter_any_code(G, k) ==
    LET it == G.list[k]
        node == G.nodes[it]
    IN IF node.label = EntryLabel
       THEN [g |-> G, k |-> k + 1, changed |-> FALSE]
       ELSE IF Len(node.inputs) = 0
       THEN [g |-> prune(G, it), k |-> k, changed |-> TRUE]
       ELSE [g |-> G, k |-> k + 1, changed |-> FALSE]

\* One iteration of the loop of o_remove_stubs at list position k: the
\* graph, the position of the next iteration, and whether a block was pruned.
stubs_iter(G, k) ==
    LET it == G.list[k]
        node == G.nodes[it]
    IN IF node.code # << >> \/ node.label = EntryLabel
       THEN [g |-> G, k |-> k + 1, changed |-> FALSE]
       ELSE IF Len(node.inputs) = 0
       THEN [g |-> prune(G, it), k |-> k, changed |-> TRUE]
       ELSE IF Len(node.outputs) = 1 /\ node.outputs[1].node # it
       THEN [g |-> prune(RedirectInputs(G, it, node.outputs[1].node), it),
             k |-> k, changed |-> TRUE]
       ELSE [g |-> G, k |-> k + 1, changed |-> FALSE]

\* o_remove_stubs, from list position k on.
RECURSIVE StubsLoop(_, _, _)
StubsLoop(G, k, changed) ==
    IF k > Len(G.list) THEN [g |-> G, changed |-> changed]
    ELSE LET r == stubs_iter(G, k) IN
         StubsLoop(r.g, r.k, changed \/ r.changed)

\* The loop of o_remove_stubs without the test for the entry label.
RECURSIVE StubsLoopNoEntry(_, _, _)
StubsLoopNoEntry(G, k, changed) ==
    IF k > Len(G.list) THEN [g |-> G, changed |-> changed]
    ELSE LET it == G.list[k]
             node == G.nodes[it]
         IN IF node.code # << >>
            THEN StubsLoopNoEntry(G, k + 1, changed)
            ELSE IF Len(node.inputs) = 0
            THEN StubsLoopNoEntry(prune(G, it), k, TRUE)
            ELSE IF Len(node.outputs) = 1 /\ node.outputs[1].node # it
            THEN StubsLoopNoEntry(
                     prune(RedirectInputs(G, it, node.outputs[1].node), it),
                     k, TRUE)
            ELSE StubsLoopNoEntry(G, k + 1, changed)

o_remove_stubs_no_entry(G) == StubsLoopNoEntry(G, 1, FALSE)

\* o_remove_stubs that removes nothing.
o_remove_stubs_none(G) == [g |-> G, changed |-> FALSE]

o_remove_stubs(G) == StubsLoop(G, 1, FALSE)

RECURSIVE RemoveToOneOutput(_, _)
RemoveToOneOutput(G, n) ==
    IF Len(G.nodes[n].outputs) <= 1 THEN G
    ELSE RemoveToOneOutput(remove_output(G, n, 1), n)

\* o_remove_branches, from list position k on.
RECURSIVE BranchesLoop(_, _, _)
BranchesLoop(G, k, changed) ==
    IF k > Len(G.list) THEN [g |-> G, changed |-> changed]
    ELSE LET n == G.list[k]
             outs == G.nodes[n].outputs
         IN IF Len(outs) < 2 \/ \E i \in 2..Len(outs) : outs[i] # outs[1]
            THEN BranchesLoop(G, k + 1, changed)
            ELSE BranchesLoop(
                     [RemoveToOneOutput(G, n) EXCEPT
                          !.nodes[n].output_inst = JmpInst],
                     k + 1, TRUE)

o_remove_branches(G) == BranchesLoop(G, 1, FALSE)

\* The tail-call loop of o_returns over the collected return nodes.
RECURSIVE TailCallLoop(_, _, _)
TailCallLoop(G, returns, k) ==
    IF k > Len(returns) THEN G
    ELSE LET n == returns[k]
             node == G.nodes[n]
         IN IF node.output_inst.op # "RTS_IMPLIED" \/ node.code = << >>
            THEN TailCallLoop(G, returns, k + 1)
            ELSE LET last == node.code[Len(node.code)]
                     new_op == TailCallOp(last.op)
                 IN IF new_op # "ASM_NULL"
                    THEN TailCallLoop(
                             [G EXCEPT !.nodes[n].output_inst =
                                           [last EXCEPT !.op = new_op]],
                             returns, k + 1)
                    ELSE TailCallLoop(G, returns, k + 1)

\* The length of the longest common suffix of two code vectors.
RECURSIVE MatchLen(_, _, _)
MatchLen(a, b, m) ==
    IF m < Min2(Len(a), Len(b)) /\ a[Len(a) - m] = b[Len(b) - m]
    THEN MatchLen(a, b, m + 1)
    ELSE m

\* The body of the pair loop of o_returns for the pair (a, b).
CombinePair(G, a, b) ==
    LET na == G.nodes[a]
        nb == G.nodes[b]
    IN
    IF Len(na.outputs) # 0 \/ Len(nb.outputs) = 0
    THEN [g |-> G, changed |-> FALSE]
    ELSE IF na.output_inst # nb.output_inst
    THEN [g |-> G, changed |-> FALSE]
    ELSE IF is_switch(G, a) \/ is_switch(G, b)
    THEN [g |-> G, changed |-> FALSE]
    ELSE
    LET match_len == MatchLen(na.code, nb.code, 0) IN
    IF match_len < 2 THEN [g |-> G, changed |-> FALSE]
    ELSE
    LET new_code == LastN(na.code, match_len)
        G1 == push_back(G, NULL, FALSE)
        new_node == Len(G1.nodes)
        G2 == [G1 EXCEPT
                 !.nodes[new_node].cfg =
                     IF na.cfg # NULL THEN na.cfg ELSE nb.cfg,
                 !.nodes[new_node].code = new_code,
                 !.nodes[new_node].output_inst = na.output_inst,
                 !.nodes[a].code = Take(@, Len(@) - match_len),
                 !.nodes[b].code = Take(@, Len(@) - match_len)]
        G3 == push_output(G2, a, Edge(new_node, -1))
        G4 == push_output(G3, b, Edge(new_node, -1))
    IN [ g |-> [G4 EXCEPT !.nodes[a].output_inst = JmpInst,
                          !.nodes[b].output_inst = JmpInst],
         changed |-> TRUE ]

\* The pair loop of o_returns: i < j over the collected return nodes.
RECURSIVE CombineLoop(_, _, _, _, _)
CombineLoop(G, returns, i, j, changed) ==
    IF i > Len(returns) THEN [g |-> G, changed |-> changed]
    ELSE IF j > Len(returns) THEN CombineLoop(G, returns, i + 1, i + 2, changed)
    ELSE LET r == CombinePair(G, returns[i], returns[j]) IN
         CombineLoop(r.g, returns, i, j + 1, changed \/ r.changed)

\* asm_graph_t::o_returns
o_returns(G) ==
    LET returns == SelectSeq(G.list, LAMBDA n : Len(G.nodes[n].outputs) = 0)
    IN CombineLoop(TailCallLoop(G, returns, 1), returns, 1, 2, FALSE)

\* ::o_peephole(begin, end): the local rewriter works on the instructions in
\* place (it gets pointers, not the vector, so the length is kept).  It is
\* modelled by one rule: a load whose value the next instruction's load
\* overwrites is dead and becomes ASM_PRUNED.
IsDeadLoad(code, k) ==
    /\ k < Len(code)
    /\ code[k].op = "LDA_IMMEDIATE"
    /\ code[k + 1].op = "LDA_IMMEDIATE"

peephole_code(code) ==
    [ k \in 1..Len(code) |->
        IF IsDeadLoad(code, k) THEN Inst("ASM_PRUNED", NULL) ELSE code[k] ]

\* o_peephole that reports a change on every call.
o_peephole_always(G) ==
    [ g |-> [G EXCEPT !.nodes =
               [ n \in 1..Len(G.nodes) |->
                   IF n \in Range(G.list)
                   THEN [G.nodes[n] EXCEPT !.code = peephole_code(@)]
                   ELSE G.nodes[n] ]],
      changed |-> TRUE ]

\* asm_graph_t::o_peephole
o_peephole(G) ==
    LET G1 == [G EXCEPT !.nodes =
                 [ n \in 1..Len(G.nodes) |->
                     IF n \in Range(G.list)
                     THEN [G.nodes[n] EXCEPT !.code = peephole_code(@)]
                     ELSE G.nodes[n] ]]
    IN [g |-> G1, changed |-> G1 # G]

\* The body of the do-while loop of asm_graph_t::optimize.
optimize_iter(G) ==
    LET r1 == o_remove_stubs(G)
        r2 == o_remove_branches(r1.g)
        r3 == o_returns(r2.g)
        r4 == o_peephole(r3.g)
    IN [ g |-> r4.g,
         changed |-> r1.changed \/ r2.changed \/ r3.changed \/ r4.changed ]

(***************************************************************************)
(* The SSA IR.  An IR value S is a record                                  *)
(*   node     handle -> [op, fn, inputs, outputs, flags]                   *)
(*   order    the handles of the nodes that are in the IR, in the order    *)
(*            the loops over cfg nodes and their ssa nodes visit them      *)
(* inputs is the sequence of input values, a handle or NULL for a value     *)
(* that is no node; outputs is the sequence of output edges <<user, slot>>. *)
(* cut records, for a node that was pruned, the users it had a non-LINK    *)
(* output edge to when it was pruned.                                      *)
(* fn is the callee of a fn_call: "pure" when its ir_io_pure() holds.      *)
(***************************************************************************)
\* ssa_flags(op): the static attribute bits of the ops of the model.
ssa_flags(op) ==
    CASE op = "return" -> {"WRITE_GLOBALS"}
      [] op = "fn_call" -> {"WRITE_GLOBALS"}
      [] op = "write" -> {"IMPURE"}
      [] OTHER -> {}

\* ssa_input0_class(op): the class of input slot 0.
ssa_input0_class(op) ==
    CASE op = "carry" -> "LINK"
      [] op = "write" -> "ORDER"
      [] OTHER -> "VALUE"

\* output_edge(i).input_class(): the class of the slot the edge ends in.
edge_input_class(S, oe) ==
    IF oe[2] = 1 THEN ssa_input0_class(S.node[oe[1]].op) ELSE "VALUE"

\* _can_prune without the cases for SSA_if and SSA_return.
can_prune_default(node) ==
    IF ssa_input0_class(node.op) = "LINK" THEN FALSE
    ELSE CASE node.op = "fn_call" -> node.fn = "pure"
           [] OTHER -> "IMPURE" \notin ssa_flags(node.op)

\* _can_prune that does not ask the callee of a call.
can_prune_any_call(node) ==
    IF ssa_input0_class(node.op) = "LINK" THEN FALSE
    ELSE CASE node.op \in {"if", "return"} -> FALSE
           [] node.op = "fn_call" -> TRUE
           [] OTHER -> "IMPURE" \notin ssa_flags(node.op)

\* _can_prune
can_prune(node) ==
    IF ssa_input0_class(node.op) = "LINK" THEN FALSE
    ELSE CASE node.op \in {"if", "return"} -> FALSE
           [] node.op = "fn_call" -> node.fn = "pure"
           [] OTHER -> "IMPURE" \notin ssa_flags(node.op)

\* for_each_node_input: the inputs that are nodes, in slot order.
node_inputs(S, h) == SelectSeq(S.node[h].inputs, LAMBDA v : v # NULL)

\* _build_linked that does not look at the output edges.
build_linked_root_only(S, h, i, vec) == [ok |-> TRUE, vec |-> Append(vec, h)]

\* _build_linked, from output i of h on: [ok, vec].
RECURSIVE build_linked(_, _, _, _)
build_linked(S, h, i, vec) ==
    IF i > Len(S.node[h].outputs) THEN [ok |-> TRUE, vec |-> Append(vec, h)]
    ELSE LET oe == S.node[h].outputs[i] IN
         IF edge_input_class(S, oe) # "LINK"
         THEN [ok |-> FALSE, vec |-> vec]
         ELSE LET r == build_linked(S, oe[1], 1, vec) IN
              IF ~r.ok THEN [ok |-> FALSE, vec |-> r.vec]
              ELSE build_linked(S, h, i + 1, r.vec)

\* _get_link_head
RECURSIVE get_link_head(_, _)
get_link_head(S, h) ==
    IF ssa_input0_class(S.node[h].op) = "LINK"
    THEN get_link_head(S, S.node[h].inputs[1])
    ELSE h

\* worklist_t::push: a no-op on a node that has FLAG_IN_WORKLIST.
\* W is [S, wl]: the IR and the worklist, a stack.
wl_push(W, h) ==
    IF "IN_WORKLIST" \in W.S.node[h].flags THEN W
    ELSE [ S |-> [W.S EXCEPT !.node[h].flags = @ \cup {"IN_WORKLIST"}],
           wl |-> Append(W.wl, h) ]

\* worklist_t::pop: the last node pushed, its flag cleared.
wl_top(W) == W.wl[Len(W.wl)]

wl_pop(W) ==
    [ S |-> [W.S EXCEPT !.node[wl_top(W)].flags = @ \ {"IN_WORKLIST"}],
      wl |-> Take(W.wl, Len(W.wl) - 1) ]

RECURSIVE wl_push_all(_, _, _)
wl_push_all(W, hs, k) ==
    IF k > Len(hs) THEN W ELSE wl_push_all(wl_push(W, hs[k]), hs, k + 1)

\* A prune that leaves the node in the output lists of its inputs.
ssa_prune_keep(S, h) ==
    LET nd == S.node[h] IN
    [ node |->
        [ x \in DOMAIN S.node |->
            IF x = h
            THEN [S.node[x] EXCEPT !.inputs = << >>, !.outputs = << >>]
            ELSE [S.node[x] EXCEPT
                    !.inputs = [ k \in 1..Len(@) |->
                                   IF Len(SelectSeq(nd.outputs,
                                          LAMBDA oe : oe = <<x, k>>)) > 0
                                   THEN NULL ELSE @[k] ]] ],
      order |-> SelectSeq(S.order, LAMBDA x : x # h) ]

\* ssa_node_t::prune: every input edge and every output edge is unlinked
\* and the node leaves its cfg node's list.
ssa_prune(S, h) ==
    LET nd == S.node[h] IN
    [ node |->
        [ x \in DOMAIN S.node |->
            IF x = h
            THEN [S.node[x] EXCEPT
                    !.inputs = << >>, !.outputs = << >>,
                    !.cut = { oe[1] : oe \in
                                { e \in Range(nd.outputs) :
                                    edge_input_class(S, e) # "LINK" } }]
            ELSE [S.node[x] EXCEPT
                    !.outputs = SelectSeq(@, LAMBDA oe : oe[1] # h),
                    !.inputs = [ k \in 1..Len(@) |->
                                   IF Len(SelectSeq(nd.outputs,
                                          LAMBDA oe : oe = <<x, k>>)) > 0
                                   THEN NULL ELSE @[k] ]] ],
      order |-> SelectSeq(S.order, LAMBDA x : x # h) ]

\* The seeding loop of o_remove_unused_linked.
linked_seed(S) ==
    wl_push_all([S |-> S, wl |-> << >>],
                SelectSeq(S.order, LAMBDA h : can_prune(S.node[h])), 1)

\* A loop over `linked` that pushes no input again.
linked_repush_none(S, h, root) == << >>

\* The inputs pushed again without the test `input != ssa_it`.
linked_repush_any(S, h, root) ==
    LET heads == [ k \in 1..Len(node_inputs(S, h)) |->
                     get_link_head(S, node_inputs(S, h)[k]) ]
    IN SelectSeq(heads, LAMBDA x : can_prune(S.node[x]))

\* The inputs of h that the linked pass pushes again: the link heads of its
\* node inputs, other than the root being pruned, that are prunable.
linked_repush(S, h, root) ==
    LET heads == [ k \in 1..Len(node_inputs(S, h)) |->
                     get_link_head(S, node_inputs(S, h)[k]) ]
    IN SelectSeq(heads, LAMBDA x : x # root /\ can_prune(S.node[x]))

\* The loop over `linked` of o_remove_unused_linked: push the inputs of each
\* node, then prune it.
RECURSIVE linked_prune_all(_, _, _, _)
linked_prune_all(W, linked, k, root) ==
    IF k > Len(linked) THEN W
    ELSE LET h == linked[k]
             W1 == wl_push_all(W, linked_repush(W.S, h, root), 1)
         IN linked_prune_all([W1 EXCEPT !.S = ssa_prune(W1.S, h)],
                             linked, k + 1, root)

\* An iteration that puts the node it could not prune back at the bottom of
\* the worklist.
linked_iter_requeue(W) ==
    LET ssa_it == wl_top(W)
        W1 == wl_pop(W)
        r == build_linked(W1.S, ssa_it, 1, << >>)
    IN IF ~r.ok
       THEN [S |-> W.S, wl |-> << ssa_it >> \o W1.wl, changed |-> FALSE,
             pruned |-> << >>]
       ELSE LET W2 == linked_prune_all(W1, r.vec, 1, ssa_it) IN
            [S |-> W2.S, wl |-> W2.wl, changed |-> TRUE, pruned |-> r.vec]

\* One iteration of the worklist loop of o_remove_unused_linked:
\* [S, wl, changed, pruned], pruned being the nodes it pruned, in order.
linked_iter(W) ==
    LET ssa_it == wl_top(W)
        W1 == wl_pop(W)
        r == build_linked(W1.S, ssa_it, 1, << >>)
    IN IF ~r.ok
       THEN [S |-> W1.S, wl |-> W1.wl, changed |-> FALSE, pruned |-> << >>]
       ELSE LET W2 == linked_prune_all(W1, r.vec, 1, ssa_it) IN
            [S |-> W2.S, wl |-> W2.wl, changed |-> TRUE, pruned |-> r.vec]

\* The roots of o_remove_no_effect without the test for SSA_if.
is_effect_root_no_if(node) ==
    \/ "WRITE_GLOBALS" \in ssa_flags(node.op)
    \/ "IMPURE" \in ssa_flags(node.op)
    \/ ssa_input0_class(node.op) = "LINK"

\* The roots of o_remove_no_effect.
is_effect_root(node) ==
    \/ node.op = "if"
    \/ "WRITE_GLOBALS" \in ssa_flags(node.op)
    \/ "IMPURE" \in ssa_flags(node.op)
    \/ ssa_input0_class(node.op) = "LINK"

\* The first two loops of o_remove_no_effect: FLAG_PRUNED is set on every
\* node, then cleared on the roots, which are pushed.
no_effect_mark(S) ==
    LET S1 == [S EXCEPT !.node =
                 [ x \in DOMAIN S.node |->
                     IF x \in Range(S.order)
                     THEN [S.node[x] EXCEPT !.flags = @ \cup {"PRUNED"}]
                     ELSE S.node[x] ]]
        roots == SelectSeq(S.order, LAMBDA h : is_effect_root(S.node[h]))
        S2 == [S1 EXCEPT !.node =
                 [ x \in DOMAIN S.node |->
                     IF x \in Range(roots)
                     THEN [S1.node[x] EXCEPT !.flags = @ \ {"PRUNED"}]
                     ELSE S1.node[x] ]]
    IN wl_push_all([S |-> S2, wl |-> << >>], roots, 1)

\* The lambda of the drain loop applied to the node inputs from k on.
RECURSIVE drain_inputs(_, _, _)
drain_inputs(W, ins, k) ==
    IF k > Len(ins) THEN W
    ELSE IF "PRUNED" \in W.S.node[ins[k]].flags
    THEN drain_inputs(
             wl_push([W EXCEPT !.S.node[ins[k]].flags = @ \ {"PRUNED"}],
                     ins[k]),
             ins, k + 1)
    ELSE drain_inputs(W, ins, k + 1)

\* The drain loop that follows no input.
no_effect_iter_shallow(W) == wl_pop(W)

\* One iteration of the drain loop of o_remove_no_effect.
no_effect_iter(W) ==
    LET ssa_it == wl_top(W)
        W1 == wl_pop(W)
    IN drain_inputs(W1, node_inputs(W1.S, ssa_it), 1)

\* The sweep of o_remove_no_effect from position k of the list on:
\* [S, changed].
RECURSIVE no_effect_sweep(_, _, _)
no_effect_sweep(S, k, ch) ==
    IF k > Len(S.order) THEN [S |-> S, changed |-> ch]
    ELSE IF "PRUNED" \in S.node[S.order[k]].flags
    THEN no_effect_sweep(ssa_prune(S, S.order[k]), k, TRUE)
    ELSE no_effect_sweep(S, k + 1, ch)

(***************************************************************************)
(* Liveness (calc_liveness) and the maybe stores (remove_maybes).          *)
(* A locator map is a sequence of locators without repetition; a bitset is *)
(* the set of the map indices whose bit is set.  The liveness L of a graph *)
(* is a function node -> [in, out].                                        *)
(***************************************************************************)
LocX == 3          \* a memory locator
LocArg == 4        \* an argument of the function LocFn names
LocRet == 5        \* a return value of the compiled function
LocFn == 6         \* a function
LocP1 == 7         \* a parameter of the compiled function
LocP2 == 8         \* another parameter of the compiled function

\* locator_t::lclass
lclass(loc) ==
    CASE loc \in {LocArg, LocP1, LocP2} -> "LOC_ARG"
      [] loc = LocRet -> "LOC_RETURN"
      [] loc = LocFn -> "LOC_FN"
      [] OTHER -> "LOC_SSA"

\* has_fn(lclass) and locator_t::fn
has_fn(lc) == lc \in {"LOC_ARG", "LOC_RETURN", "LOC_FN"}

loc_fn(loc) == IF loc \in {LocArg, LocFn} THEN "callee" ELSE "compiled"

\* op_input_regs(op) & REGF_M and op_output_regs(op) & REGF_M
reads_m(op) == op \in {"LDA_ABSOLUTE", "INC_ABSOLUTE"}

writes_m(op) == op \in {"STA_ABSOLUTE", "INC_ABSOLUTE", "MAYBE_STA"}

\* op_flags(op) & ASMF_MAYBE_STORE and change_addr_mode(op, MODE_ABSOLUTE)
is_maybe_store(op) == op = "MAYBE_STA"

change_addr_mode(op) == IF op = "MAYBE_STA" THEN "STA_ABSOLUTE" ELSE "ASM_NULL"

\* batman_set::lookup: the index of loc in map, NULL when it is not a key.
map_lookup(map, loc) ==
    IF \E i \in 1..Len(map) : map[i] = loc
    THEN CHOOSE i \in 1..Len(map) : map[i] = loc
    ELSE NULL

\* batman_set::insert
map_insert(map, loc) ==
    IF map_lookup(map, loc) # NULL THEN map ELSE Append(map, loc)

Rw(i, r, w) == [i |-> i, read |-> r, write |-> w]

\* The calls of rw that the loop over map makes for a call instruction.  The
\* map of the model holds no LOC_GMEMBER locator.
RECURSIVE rw_of_call(_, _, _)
rw_of_call(map, call_h, k) ==
    IF k > Len(map) THEN << >>
    ELSE (IF has_fn(lclass(map[k])) /\ loc_fn(map[k]) = call_h
          THEN << Rw(k, lclass(map[k]) = "LOC_ARG",
                     lclass(map[k]) = "LOC_RETURN") >>
          ELSE << >>) \o rw_of_call(map, call_h, k + 1)

\* The calls of rw that the loop over map makes for a return.
RECURSIVE rw_of_return(_, _)
rw_of_return(map, k) ==
    IF k > Len(map) THEN << >>
    ELSE (IF lclass(map[k]) = "LOC_RETURN" THEN << Rw(k, TRUE, FALSE) >>
          ELSE << >>) \o rw_of_return(map, k + 1)

\* do_inst_rw: the calls of rw, in order.  No op of the model has an
\* indirect addressing mode.
do_inst_rw(map, inst) ==
    (IF lclass(inst.arg) = "LOC_FN"
     THEN rw_of_call(map, loc_fn(inst.arg), 1) ELSE << >>)
    \o (IF IsReturn(inst) THEN rw_of_return(map, 1)
        ELSE IF lclass(inst.arg) # "LOC_FN" /\ map_lookup(map, inst.arg) # NULL
        THEN << Rw(map_lookup(map, inst.arg), reads_m(inst.op),
                   writes_m(inst.op)) >>
        ELSE << >>)

\* do_read and do_write of calc_liveness on the sets v = [in, out] of a node.
do_read(v, i) == IF i \in v.out THEN [v EXCEPT !.in = @ \cup {i}] ELSE v

do_write(v, i) == [v EXCEPT !.out = @ \ {i}]

\* The lambda with do_write before do_read.
live_rw_write_first(v, e) ==
    LET v1 == IF e.write THEN do_write(v, e.i) ELSE v IN
    IF e.read THEN do_read(v1, e.i) ELSE v1

\* The lambda calc_liveness gives to do_inst_rw.
live_rw(v, e) ==
    LET v1 == IF e.read THEN do_read(v, e.i) ELSE v IN
    IF e.write THEN do_write(v1, e.i) ELSE v1

RECURSIVE live_rw_all(_, _, _)
live_rw_all(v, es, k) ==
    IF k > Len(es) THEN v ELSE live_rw_all(live_rw(v, es[k]), es, k + 1)

\* The loop over node.code that sets in to GEN and out to the complement
\* of KILL.
RECURSIVE live_code(_, _, _, _)
live_code(v, map, code, k) ==
    IF k > Len(code) THEN v
    ELSE live_code(live_rw_all(v, do_inst_rw(map, code[k]), 1), map, code,
                   k + 1)

\* bitset_pool.alloc for the nodes of the list: all bits clear.
live_alloc(G) == [ n \in 1..Len(G.nodes) |-> [in |-> {}, out |-> {}] ]

\* "Every arg will be written at root": do_read on the root for the
\* LOC_ARG locators from k on.
RECURSIVE live_args(_, _, _)
live_args(v, map, k) ==
    IF k > Len(map) THEN v
    ELSE live_args(IF lclass(map[k]) = "LOC_ARG" THEN do_read(v, k) ELSE v,
                   map, k + 1)

\* The initialisation of calc_liveness.
live_init(G, map) ==
    LET root == LabelLookup(G, EntryLabel)
        L0 == live_alloc(G)
        L1 == IF root = NULL THEN L0
              ELSE [L0 EXCEPT ![root] = live_args(@, map, 1)]
    IN [ n \in 1..Len(G.nodes) |->
           IF n \in Range(G.list)
           THEN live_code([L1[n] EXCEPT !.out = 1..Len(map)], map,
                          G.nodes[n].code, 1)
           ELSE L1[n] ]

\* The union of the in sets of the successors of n.
succ_in(G, L, n) ==
    UNION { L[G.nodes[n].outputs[i].node].in :
              i \in 1..Len(G.nodes[n].outputs) }

\* worklist_t<asm_node_t*>::push of the nodes ns from k on; W is [wl, inwl].
RECURSIVE live_push(_, _, _)
live_push(W, ns, k) ==
    IF k > Len(ns) THEN W
    ELSE IF ns[k] \in W.inwl THEN live_push(W, ns, k + 1)
    ELSE live_push([wl |-> Append(W.wl, ns[k]), inwl |-> W.inwl \cup {ns[k]}],
                   ns, k + 1)

\* An iteration of the worklist loop that pushes the predecessors whether
\* `in` changes or not.
live_iter_push_always(G, st) ==
    LET n == st.wl[Len(st.wl)]
        W0 == [wl |-> Take(st.wl, Len(st.wl) - 1), inwl |-> st.inwl \ {n}]
        temp == (succ_in(G, st.L, n) \cap st.L[n].out) \cup st.L[n].in
        W1 == live_push(W0, G.nodes[n].inputs, 1)
    IN [ L |-> [st.L EXCEPT ![n].in = temp],
         wl |-> W1.wl, inwl |-> W1.inwl,
         processed |-> st.processed \cup {n} ]

\* One iteration of the worklist loop of calc_liveness; st is
\* [L, wl, inwl, processed].
live_iter(G, st) ==
    LET n == st.wl[Len(st.wl)]
        W0 == [wl |-> Take(st.wl, Len(st.wl) - 1), inwl |-> st.inwl \ {n}]
        temp == (succ_in(G, st.L, n) \cap st.L[n].out) \cup st.L[n].in
        grow == n \notin st.processed \/ temp # st.L[n].in
        W1 == IF grow THEN live_push(W0, G.nodes[n].inputs, 1) ELSE W0
    IN [ L |-> [st.L EXCEPT ![n].in = temp],
         wl |-> W1.wl, inwl |-> W1.inwl,
         processed |-> IF grow THEN st.processed \cup {n}
                       ELSE st.processed ]

\* The worklist loop of calc_liveness.
RECURSIVE live_drain(_, _)
live_drain(G, st) ==
    IF Len(st.wl) = 0 THEN st ELSE live_drain(G, live_iter(G, st))

\* The pushes before the loop: the nodes without output.
live_seed(G) ==
    live_push([wl |-> << >>, inwl |-> {}],
              SelectSeq(G.list, LAMBDA n : Len(G.nodes[n].outputs) = 0), 1)

\* The pushes after the loop: the nodes that are not processed.
live_unprocessed(G, st) ==
    live_push([wl |-> st.wl, inwl |-> st.inwl],
              SelectSeq(G.list, LAMBDA n : n \notin st.processed), 1)

\* The last loop of calc_liveness: out is the union of the successors' in.
live_out(G, L) ==
    [ n \in 1..Len(G.nodes) |->
        IF n \in Range(G.list)
        THEN [in |-> L[n].in, out |-> succ_in(G, L, n)]
        ELSE L[n] ]

\* calc_liveness that leaves out the nodes no return is reached from.
live_no_reenter(G, st) == st

\* The nodes that are not processed are pushed and the loop is entered again.
RECURSIVE live_reenter(_, _)
live_reenter(G, st) ==
    LET todo == SelectSeq(G.list, LAMBDA n : n \notin st.processed)
        W == live_push([wl |-> st.wl, inwl |-> st.inwl], todo, 1)
    IN IF Len(W.wl) = 0 THEN st
       ELSE live_reenter(G, live_drain(G, [st EXCEPT !.wl = W.wl,
                                                     !.inwl = W.inwl]))

\* calc_liveness: the liveness of the nodes of the list.
calc_liveness(G, map) ==
    LET L0 == live_init(G, map)
        seed == live_push([wl |-> << >>, inwl |-> {}],
                          SelectSeq(G.list,
                              LAMBDA n : Len(G.nodes[n].outputs) = 0), 1)
        st == live_reenter(G, live_drain(G,
                  [L |-> L0, wl |-> seed.wl, inwl |-> seed.inwl,
                   processed |-> {}]))
    IN [ n \in 1..Len(G.nodes) |->
           IF n \in Range(G.list)
           THEN [in |-> st.L[n].in, out |-> succ_in(G, st.L, n)]
           ELSE st.L[n] ]

\* The first loop of remove_maybes: the map of the targets of the maybe
\* stores, over the code of the nodes from position p of the list on.
RECURSIVE maybes_code_map(_, _, _)
maybes_code_map(map, code, k) ==
    IF k > Len(code) THEN map
    ELSE maybes_code_map(
             IF is_maybe_store(code[k].op) /\ code[k].arg # NULL
             THEN map_insert(map, code[k].arg) ELSE map,
             code, k + 1)

RECURSIVE maybes_map(_, _, _)
maybes_map(G, map, p) ==
    IF p > Len(G.list) THEN map
    ELSE maybes_map(G, maybes_code_map(map, G.nodes[G.list[p]].code, 1),
                    p + 1)

\* The lambda remove_maybes gives to do_inst_rw, over the calls es.
RECURSIVE maybes_rw_all(_, _, _)
maybes_rw_all(live, es, k) ==
    IF k > Len(es) THEN live
    ELSE maybes_rw_all(
             IF es[k].read THEN live \cup {es[k].i}
             ELSE IF es[k].write THEN live \ {es[k].i} ELSE live,
             es, k + 1)

\* The rewrite that makes a store of every maybe store.
maybes_rewrite_promote(map, inst, live) ==
    IF ~is_maybe_store(inst.op) \/ map_lookup(map, inst.arg) = NULL THEN inst
    ELSE Inst(change_addr_mode(inst.op), inst.arg)

\* The rewrite of one maybe store given the live set after it.
maybes_rewrite(map, inst, live) ==
    IF ~is_maybe_store(inst.op) \/ map_lookup(map, inst.arg) = NULL THEN inst
    ELSE IF map_lookup(map, inst.arg) \in live
    THEN Inst(change_addr_mode(inst.op), inst.arg)
    ELSE Inst("ASM_PRUNED", NULL)

\* The reverse walk of remove_maybes over code, from position k down.
RECURSIVE maybes_walk(_, _, _, _)
maybes_walk(map, code, k, live) ==
    IF k = 0 THEN code
    ELSE LET inst == maybes_rewrite(map, code[k], live) IN
         maybes_walk(map, [code EXCEPT ![k] = inst], k - 1,
                     maybes_rw_all(live, do_inst_rw(map, inst), 1))

\* The reverse walk started from the in set of the node.
maybes_nodes_in(G, map, L) ==
    [ n \in 1..Len(G.nodes) |->
        IF n \in Range(G.list)
        THEN [G.nodes[n] EXCEPT
                !.code = maybes_walk(map, @, Len(@), L[n].in)]
        ELSE G.nodes[n] ]

\* The second loop of remove_maybes: the nodes with their code rewritten.
maybes_nodes(G, map, L) ==
    [ n \in 1..Len(G.nodes) |->
        IF n \in Range(G.list)
        THEN [G.nodes[n] EXCEPT
                !.code = maybes_walk(map, @, Len(@), L[n].out)]
        ELSE G.nodes[n] ]

\* remove_maybes: [g, map, L].
remove_maybes(G) ==
    LET map == maybes_map(G, << >>, 1)
        L == calc_liveness(G, map)
    IN [g |-> [G EXCEPT !.nodes = maybes_nodes(G, map, L)],
        map |-> map, L |-> L]

\* op_flags(op) & ASMF_CALL
is_call(op) == op = "JSR_ABSOLUTE"

\* lvars_manager_t::add_lvar_interferences that adds nothing.
add_lvar_interferences_none(live) == {}

\* lvars_manager_t::add_lvar_interferences: every two lvars of the set
\* interfere.
add_lvar_interferences(live) ==
    { {q[1], q[2]} : q \in { q \in live \X live : q[1] # q[2] } }

\* The walk of build_lvars over the code of a node, from instruction k
\* back; acc is [live, interf, fn_interf].
RECURSIVE lvars_walk(_, _, _, _)
lvars_walk(map, code, k, acc) ==
    IF k = 0 THEN acc
    ELSE LET inst == code[k]
             fns == IF is_call(inst.op) /\ lclass(inst.arg) = "LOC_FN"
                    THEN { <<i, inst.arg>> : i \in acc.live } ELSE {}
             live == maybes_rw_all(acc.live, do_inst_rw(map, inst), 1)
         IN lvars_walk(map, code, k - 1,
                [ live |-> live,
                  interf |-> acc.interf \cup add_lvar_interferences(live),
                  fn_interf |-> acc.fn_interf \cup fns ])

\* The loop of build_lvars over the nodes of the list from position p on.
RECURSIVE lvars_nodes(_, _, _, _, _)
lvars_nodes(G, map, L, p, acc) ==
    IF p > Len(G.list) THEN acc
    ELSE LET n == G.list[p]
             r == lvars_walk(map, G.nodes[n].code, Len(G.nodes[n].code),
                     [ live |-> L[n].out,
                       interf |-> acc.interf
                                    \cup add_lvar_interferences(L[n].out),
                       fn_interf |-> acc.fn_interf ])
         IN lvars_nodes(G, map, L, p + 1, r)

\* The last step of build_lvars: the referenced parameters that have an
\* index interfere with each other.
lvars_params(map, ref) ==
    add_lvar_interferences({ i \in 1..Len(map) : map[i] \in ref })

\* asm_graph_t::build_lvars; map is lvars.map() and ref the locators
\* fn.for_each_referenced_param_locator gives.
build_lvars(G, map, ref) ==
    LET L == calc_liveness(G, map)
        r == lvars_nodes(G, map, L, 1,
                 [live |-> {}, interf |-> {}, fn_interf |-> {}])
    IN [ L |-> L,
         interf |-> r.interf \cup lvars_params(map, ref),
         fn_interf |-> r.fn_interf ]

(***************************************************************************)
(* Block ordering (asm_graph_t::order).                                    *)
(***************************************************************************)
\* locator_t::data of a label: the labels of the model are the first labels
\* of their cfg nodes.
label_data(lbl) == 0

\* asm_node_t::find_input
find_input(G, n, from) ==
    CHOOSE i \in 1..Len(G.nodes[n].inputs) :
        /\ G.nodes[n].inputs[i] = from
        /\ \A k \in 1..(i - 1) : G.nodes[n].inputs[k] # from

\* op_size(op), in bytes
op_size(op) ==
    CASE op \in {"ASM_LABEL", "ASM_PRUNED", "ASM_NULL"} -> 0
      [] op \in {"RTS_IMPLIED", "NOP_IMPLIED"} -> 1
      [] op \in {"BEQ_RELATIVE", "BNE_RELATIVE", "LDA_IMMEDIATE"} -> 2
      [] OTHER -> 3

\* size_in_bytes(begin, end)
RECURSIVE size_in_bytes(_)
size_in_bytes(code) ==
    IF Len(code) = 0 THEN 0
    ELSE op_size(code[1].op) + size_in_bytes(Tail(code))

\* edge_depth(a, b): the loop nesting depth of the edge between two cfg
\* nodes; depth is the value it has for the cfg nodes of the graph.
edge_depth(depth, a, b) == depth

RECURSIVE build_incoming(_, _, _)
build_incoming(G, n, cfg) ==
    IF G.nodes[n].cfg # cfg THEN {G.nodes[n].cfg}
    ELSE IF G.nodes[n].label # NULL /\ IsCfgLabel(G.nodes[n].label)
            /\ label_data(G.nodes[n].label) > 0
    THEN UNION { build_incoming(G, G.nodes[n].inputs[i], cfg) :
                   i \in 1..Len(G.nodes[n].inputs) }
    ELSE {}

Max2(a, b) == IF a > b THEN a ELSE b

RECURSIVE MaxOf(_)
MaxOf(S) ==
    IF S = {} THEN 0
    ELSE LET x == CHOOSE y \in S : TRUE IN Max2(x, MaxOf(S \ {x}))

\* The lambda `scale` of order() for the edge from node n to node other.
scale(G, depth, n, other) ==
    LET other_cfg == IF G.nodes[other].cfg = NULL THEN G.nodes[n].cfg
                     ELSE G.nodes[other].cfg
        incoming == IF G.nodes[n].cfg = other_cfg
                    THEN build_incoming(G, n, G.nodes[n].cfg) ELSE {}
        d == IF incoming = {}
             THEN edge_depth(depth, G.nodes[n].cfg, other_cfg)
             ELSE MaxOf({ edge_depth(depth, c, other_cfg) : c \in incoming })
    IN IF G.nodes[n].cfg = NULL THEN 1 ELSE 2 ^ Min2(16, 2 * d)

OEdge(f, o, w) == [from |-> f, output |-> o, weight |-> w]

\* The edges of node n with the heavier weight on the output whose target
\* has the greater original_order.
node_edges_greater_first(G, depth, n) ==
    LET outs == G.nodes[n].outputs
        to(i) == outs[i].node
    IN CASE Len(outs) = 0 -> << >>
         [] Len(outs) = 1 -> << OEdge(n, 1, 3 * scale(G, depth, n, to(1))) >>
         [] Len(outs) = 2 ->
              LET i == IF G.nodes[to(1)].original_order
                            > G.nodes[to(2)].original_order THEN 1 ELSE 2
                  j == 3 - i
              IN << OEdge(n, i, 2 * scale(G, depth, n, to(i))),
                    OEdge(n, j, 1 * scale(G, depth, n, to(j))) >>
         [] OTHER -> [ i \in 1..Len(outs) |-> OEdge(n, i, 0) ]

\* The edges order() pushes on elim_order for node n.
node_edges(G, depth, n) ==
    LET outs == G.nodes[n].outputs
        to(i) == outs[i].node
    IN CASE Len(outs) = 0 -> << >>
         [] Len(outs) = 1 -> << OEdge(n, 1, 3 * scale(G, depth, n, to(1))) >>
         [] Len(outs) = 2 ->
              LET i == IF G.nodes[to(1)].original_order
                            > G.nodes[to(2)].original_order THEN 2 ELSE 1
                  j == 3 - i
              IN << OEdge(n, i, 2 * scale(G, depth, n, to(i))),
                    OEdge(n, j, 1 * scale(G, depth, n, to(j))) >>
         [] OTHER -> [ i \in 1..Len(outs) |-> OEdge(n, i, 0) ]

\* elim_order before it is sorted.
RECURSIVE elim_edges(_, _, _)
elim_edges(G, depth, p) ==
    IF p > Len(G.list) THEN << >>
    ELSE node_edges(G, depth, G.list[p]) \o elim_edges(G, depth, p + 1)

\* The arrangements of the edges es[i], i in idx, by decreasing weight.
RECURSIVE sorted_from(_, _)
sorted_from(es, idx) ==
    IF idx = {} THEN { << >> }
    ELSE LET top == { i \in idx : \A k \in idx : es[i].weight >= es[k].weight }
         IN UNION { { << es[i] >> \o rest : rest \in sorted_from(es, idx \ {i}) } :
                      i \in top }

\* std::sort by decreasing weight: the order of edges of equal weight is
\* not specified, so every arrangement by decreasing weight is a result.
sorted_orders(es) == sorted_from(es, 1..Len(es))

\* The state order() resets before the cover.
cover_reset(G) ==
    [ n \in 1..Len(G.nodes) |->
        [path_input |-> -1, path_output |-> -1, list_end |-> NULL] ]

\* The walk along list_end that finds the end of the path of n.
RECURSIVE path_end(_, _)
path_end(vc, n) ==
    IF vc[n].list_end = NULL THEN n ELSE path_end(vc, vc[n].list_end)

\* One step of the greedy cover without the test of the target's path input.
cover_edge_no_input_test(G, vc, e) ==
    LET to == G.nodes[e.from].outputs[e.output].node IN
    IF vc[e.from].path_output >= 0 THEN vc
    ELSE IF path_end(vc, to) = e.from THEN vc
    ELSE [vc EXCEPT
            ![e.from] = [path_input |-> vc[e.from].path_input,
                         path_output |-> e.output,
                         list_end |-> path_end(vc, to)],
            ![to] = [@ EXCEPT !.path_input = find_input(G, to, e.from)]]

\* One step of the greedy cover.  From and to differ when the edge is taken
\* (a path that ends at from does not start at it).
cover_edge(G, vc, e) ==
    LET to == G.nodes[e.from].outputs[e.output].node IN
    IF vc[e.from].path_output >= 0 THEN vc
    ELSE IF vc[to].path_input >= 0 THEN vc
    ELSE IF path_end(vc, to) = e.from THEN vc
    ELSE [vc EXCEPT
            ![e.from] = [path_input |-> vc[e.from].path_input,
                         path_output |-> e.output,
                         list_end |-> path_end(vc, to)],
            ![to] = [@ EXCEPT !.path_input = find_input(G, to, e.from)]]

RECURSIVE path_cover(_, _, _, _)
path_cover(G, vc, eo, k) ==
    IF k > Len(eo) THEN vc
    ELSE path_cover(G, cover_edge(G, vc, eo[k]), eo, k + 1)

\* The nodes of the path that starts at n; fuel bounds the walk by the
\* number of nodes, a walk that needs more runs forever in the code.
RECURSIVE path_from(_, _, _, _)
path_from(G, vc, n, fuel) ==
    IF vc[n].path_output < 0 \/ fuel = 0 THEN << n >>
    ELSE << n >> \o path_from(G, vc, G.nodes[n].outputs[vc[n].path_output].node,
                              fuel - 1)

\* The collection of the paths, over the list from position p on.
RECURSIVE collect_paths(_, _, _)
collect_paths(G, vc, p) ==
    IF p > Len(G.list) THEN << >>
    ELSE (IF vc[G.list[p]].path_input >= 0 THEN << >>
          ELSE << path_from(G, vc, G.list[p], Len(G.nodes)) >>)
         \o collect_paths(G, vc, p + 1)

\* vorder.code_size with the terminator counted twice for a block of two
\* outputs that is not the last of its path, and once for the last block of
\* a path and for a block of one output.
node_code_size_not_back(G, path, k) ==
    LET nd == G.nodes[path[k]]
        t == op_size(nd.output_inst.op)
        is_back == k = Len(path)
    IN size_in_bytes(nd.code)
       + (IF Len(nd.outputs) = 2 /\ ~is_back THEN 2 * t ELSE t)

\* vorder.code_size of the node at position k of path.
node_code_size(G, path, k) ==
    LET nd == G.nodes[path[k]]
        t == op_size(nd.output_inst.op)
        is_back == k = Len(path)
    IN size_in_bytes(nd.code)
       + (CASE Len(nd.outputs) = 2 -> t + (IF is_back THEN t ELSE 0)
            [] Len(nd.outputs) = 1 -> IF is_back THEN t ELSE 0
            [] OTHER -> t)

\* vorder.offset of the node at position k of path.
RECURSIVE node_offset(_, _, _)
node_offset(G, path, k) ==
    IF k = 1 THEN 0
    ELSE node_offset(G, path, k - 1) + node_code_size(G, path, k - 1)

path_code_size(G, path) ==
    node_offset(G, path, Len(path)) + node_code_size(G, path, Len(path))

\* vorder.path and vorder.offset of node n.
path_of(paths, n) ==
    CHOOSE i \in 1..Len(paths) :
        /\ \E k \in 1..Len(paths[i]) : paths[i][k] = n
        /\ \A j \in 1..(i - 1) : \A k \in 1..Len(paths[j]) : paths[j][k] # n

offset_of(G, paths, n) ==
    LET path == paths[path_of(paths, n)]
        k == CHOOSE x \in 1..Len(path) : path[x] = n
    IN node_offset(G, path, k)

\* The branches of path i: [from_offset, to_offset, to_path].
RECURSIVE node_branches(_, _, _, _, _)
node_branches(G, paths, i, n, j) ==
    IF j > Len(G.nodes[n].outputs) THEN << >>
    ELSE LET out == G.nodes[n].outputs[j].node IN
         (IF path_of(paths, out) # i
          THEN << [from_offset |-> offset_of(G, paths, n),
                   to_offset |-> offset_of(G, paths, out),
                   to_path |-> path_of(paths, out)] >>
          ELSE << >>) \o node_branches(G, paths, i, n, j + 1)

RECURSIVE path_branches(_, _, _, _)
path_branches(G, paths, i, k) ==
    IF k > Len(paths[i]) THEN << >>
    ELSE (IF IsBranchOp(G.nodes[paths[i][k]].output_inst.op)
          THEN node_branches(G, paths, i, paths[i][k], 1) ELSE << >>)
         \o path_branches(G, paths, i, k + 1)

Abs(x) == IF x < 0 THEN -x ELSE x

\* The offset cost_fn gives to the path at position k of order.
RECURSIVE order_offset(_, _, _, _)
order_offset(G, paths, order, k) ==
    IF k = 1 THEN 0
    ELSE order_offset(G, paths, order, k - 1)
         + path_code_size(G, paths[order[k - 1]])

path_offset(G, paths, order, i) ==
    order_offset(G, paths, order, CHOOSE k \in 1..Len(order) : order[k] = i)

branch_cost(G, paths, order, i, b) ==
    LET from == b.from_offset + path_offset(G, paths, order, i)
        to == b.to_offset + path_offset(G, paths, order, b.to_path)
    IN (IF (from % 256) # (to % 256) THEN 1 ELSE 0)
       + (IF Abs(from - to) > 127 - 4 THEN 3 ELSE 0)

RECURSIVE SumSeq(_)
SumSeq(xs) == IF Len(xs) = 0 THEN 0 ELSE xs[1] + SumSeq(Tail(xs))

\* cost_fn
cost_fn(G, paths, order) ==
    SumSeq([ k \in 1..Len(order) |->
               LET bs == path_branches(G, paths, order[k], 1) IN
               SumSeq([ j \in 1..Len(bs) |->
                          branch_cost(G, paths, order, order[k], bs[j]) ]) ])

\* The orders of the elements of S.
RECURSIVE PermsOf(_)
PermsOf(S) ==
    IF S = {} THEN { << >> }
    ELSE UNION { { << x >> \o rest : rest \in PermsOf(S \ {x}) } : x \in S }

Perms(n) == PermsOf(1..n)

\* p comes before q in the order std::next_permutation visits.
LexBefore(p, q) ==
    \E k \in 1..Len(p) :
        /\ p[k] < q[k]
        /\ \A j \in 1..(k - 1) : p[j] = q[j]

SOLVE_OPTIMALLY_LIMIT == 4

\* std::minstd_rand: x' = 48271 * x mod (2^31 - 1), computed without a
\* product above 2^31 (48271 * 44488 + 3399 = 2^31 - 1).
MINSTD_M == 2147483647

rng_next(x) ==
    LET t == 48271 * (x % 44488) - 3399 * (x \div 44488)
    IN IF t < 0 THEN t + MINSTD_M ELSE t

\* A draw of std::uniform_int_distribution<>(0, n - 1), as [v, x]: the
\* value (1-based here) and the next state of the generator.
rng_draw(x, n) ==
    LET x1 == rng_next(x) IN [v |-> ((x1 - 1) % n) + 1, x |-> x1]

\* std::swap(order[a], order[b])
swap_order(order, a, b) ==
    [order EXCEPT ![a] = order[b], ![b] = order[a]]

\* std::shuffle(order.begin(), order.end(), rng) from position i down, as
\* [order, x].
RECURSIVE shuffle_from(_, _, _)
shuffle_from(order, x, i) ==
    IF i <= 1 THEN [order |-> order, x |-> x]
    ELSE LET d == rng_draw(x, i) IN
         shuffle_from(swap_order(order, i, d.v), d.x, i - 1)

\* The lambda check of order(): st is [best, lowest, x]; lowest is -1 for
\* ~0, which no cost reaches.
check_order(cost, st, order) ==
    IF st.lowest < 0 \/ cost[order] < st.lowest
    THEN [st EXCEPT !.best = order, !.lowest = cost[order]]
    ELSE st

\* std::next_permutation that finds no next permutation.
next_permutation_none(order) == [ok |-> FALSE, order |-> order]

\* std::next_permutation: the next order in lexicographic order and true,
\* or the first order and false after the last one.
next_permutation(order) ==
    LET n == Len(order)
        ks == { k \in 1..(n - 1) : order[k] < order[k + 1] }
    IN IF ks = {}
       THEN [ok |-> FALSE, order |-> [ i \in 1..n |-> order[n + 1 - i] ]]
       ELSE LET k == CHOOSE x \in ks : \A y \in ks : y <= x
                ls == { l \in (k + 1)..n : order[k] < order[l] }
                l == CHOOSE x \in ls : \A y \in ls : y <= x
                sw == [order EXCEPT ![k] = order[l], ![l] = order[k]]
            IN [ok |-> TRUE,
                order |-> [ i \in 1..n |->
                              IF i <= k THEN sw[i] ELSE sw[n + k + 1 - i] ]]

\* do check(order); while(lowest_cost && std::next_permutation(...))
RECURSIVE solve_loop(_, _, _)
solve_loop(cost, st, order) ==
    LET st1 == check_order(cost, st, order)
        np == next_permutation(order)
    IN IF st1.lowest # 0 /\ np.ok THEN solve_loop(cost, st1, np.order)
       ELSE st1

\* The search for at most SOLVE_OPTIMALLY_LIMIT paths: the best order.
solve_optimally(n, cost) ==
    solve_loop(cost, [best |-> << >>, lowest |-> -1, x |-> 0],
               [ i \in 1..n |-> i ]).best

INITIAL_SHUFFLES == 4

ATTEMPTS_PER_ITER == 4

\* The loop of the initial shuffles, as [st, order].
RECURSIVE initial_shuffles(_, _, _, _)
initial_shuffles(cost, st, order, i) ==
    IF i >= INITIAL_SHUFFLES THEN [st |-> st, order |-> order]
    ELSE LET sh == shuffle_from(order, st.x, Len(order))
         IN initial_shuffles(cost,
                             check_order(cost, [st EXCEPT !.x = sh.x], sh.order),
                             sh.order, i + 1)

\* The `swaps` random swaps of one attempt, as [order, x].
RECURSIVE random_swaps(_, _, _)
random_swaps(order, x, swaps) ==
    IF swaps = 0 THEN [order |-> order, x |-> x]
    ELSE LET a == rng_draw(x, Len(order))
             b == rng_draw(a.x, Len(order))
         IN random_swaps(swap_order(order, a.v, b.v), b.x, swaps - 1)

\* The annealing loops from (swaps, attempt) on; they end when the cost of
\* the best order is 0.
RECURSIVE anneal(_, _, _, _)
anneal(cost, st, swaps, attempt) ==
    IF swaps = 0 THEN st
    ELSE IF attempt >= ATTEMPTS_PER_ITER THEN anneal(cost, st, swaps - 1, 0)
    ELSE LET sw == random_swaps(st.best, st.x, swaps)
             st1 == check_order(cost, [st EXCEPT !.x = sw.x], sw.order)
         IN IF st1.lowest = 0 THEN st1
            ELSE anneal(cost, st1, swaps, attempt + 1)

\* The search for more paths than SOLVE_OPTIMALLY_LIMIT: the best order.
random_search(n, cost, seed) ==
    LET order == [ i \in 1..n |-> i ]
        st0 == check_order(cost, [best |-> << >>, lowest |-> -1, x |-> seed],
                           order)
        r == initial_shuffles(cost, st0, order, 0)
    IN anneal(cost, r.st, n, 0).best

\* The result of order(): the nodes of the paths in the order chosen.
RECURSIVE gather(_, _, _)
gather(paths, order, k) ==
    IF k > Len(order) THEN << >>
    ELSE paths[order[k]] \o gather(paths, order, k + 1)

(***************************************************************************)
(* asm_graph_t::to_linear                                                  *)
(***************************************************************************)
\* locator_t::minor_label(vid): a label no instruction stream holds.
MinorBase == 100

minor_label(vid) == MinorBase + vid

\* node->vid: the position of the node in order, from 0.
vid_of(order, n) == (CHOOSE i \in 1..Len(order) : order[i] = n) - 1

\* The lambda get_label of to_linear.
get_label(G, order, n) ==
    IF G.nodes[n].label # NULL THEN G.nodes[n].label
    ELSE minor_label(vid_of(order, n))

\* locator_t::const_byte(0) and a label with_advance_offset(-1), as entries
\* of a switch table.
ConstByte == [lbl |-> NULL, offset |-> 0]

TableEntry(lbl) == [lbl |-> lbl, offset |-> -1]

\* The instructions of a table: its label (switch_lo_table(cfg) or
\* switch_hi_table(cfg)) and an ASM_DATA of an entry with_is(is).
TableLabel(half, cfg) == [op |-> "ASM_LABEL", arg |-> cfg, table |-> half]

TableData(e, is) ==
    [op |-> "ASM_DATA", arg |-> e.lbl, offset |-> e.offset, is |-> is]

\* min and max of the case values of the outputs, from 0xFF and 0.
RECURSIVE case_min(_, _)
case_min(outs, j) ==
    IF j > Len(outs) THEN 255
    ELSE Min2(outs[j].case_value, case_min(outs, j + 1))

RECURSIVE case_max(_, _)
case_max(outs, j) ==
    IF j > Len(outs) THEN 0
    ELSE Max2(outs[j].case_value, case_max(outs, j + 1))

\* table[edge.case_value - min] = get_label(*edge.node).with_advance_offset(-1)
\* for the outputs from j on.
RECURSIVE table_fill(_, _, _, _, _, _)
table_fill(G, order, outs, min, table, j) ==
    IF j > Len(outs) THEN table
    ELSE table_fill(G, order, outs, min,
             [table EXCEPT ![outs[j].case_value - min + 1] =
                  TableEntry(get_label(G, order, outs[j].node))],
             j + 1)

\* The table of a switch block that is not shifted by the least case value.
switch_table_code_unshifted(G, order, n, table) ==
    LET outs == G.nodes[n].outputs
        size == case_max(outs, 1) + 1
        resized == [ i \in 1..size |->
                       IF i <= Len(table) THEN table[i] ELSE ConstByte ]
        filled == table_fill(G, order, outs, 0, resized, 1)
        cfg == G.nodes[n].output_inst.arg
    IN [ g |-> G,
         table |-> filled,
         code |-> << TableLabel("lo", cfg) >>
                    \o [ i \in 1..size |-> TableData(filled[i], "IS_PTR") ]
                    \o << TableLabel("hi", cfg) >>
                    \o [ i \in 1..size |-> TableData(filled[i], "IS_PTR_HI") ] ]

\* The body of the first loop of to_linear for the switch block n: the
\* graph with the offset of the terminator advanced, `table` as the block
\* leaves it, and what is pushed on table_code.
switch_table_code(G, order, n, table) ==
    LET outs == G.nodes[n].outputs
        min == case_min(outs, 1)
        size == case_max(outs, 1) - min + 1
        resized == [ i \in 1..size |->
                       IF i <= Len(table) THEN table[i] ELSE ConstByte ]
        filled == table_fill(G, order, outs, min, resized, 1)
        cfg == G.nodes[n].output_inst.arg
    IN [ g |-> [G EXCEPT !.nodes[n].output_inst.offset = @ - min],
         table |-> filled,
         code |-> << TableLabel("lo", cfg) >>
                    \o [ i \in 1..size |-> TableData(filled[i], "IS_PTR") ]
                    \o << TableLabel("hi", cfg) >>
                    \o [ i \in 1..size |-> TableData(filled[i], "IS_PTR_HI") ] ]

\* The first loop of to_linear, from position i of order on; acc is
\* [g, table, code].
RECURSIVE linear_tables(_, _, _)
linear_tables(order, i, acc) ==
    IF i > Len(order) THEN acc
    ELSE IF ~is_switch(acc.g, order[i]) THEN linear_tables(order, i + 1, acc)
    ELSE LET r == switch_table_code(acc.g, order, order[i], acc.table) IN
         linear_tables(order, i + 1,
             [g |-> r.g, table |-> r.table, code |-> acc.code \o r.code])

\* The jumps of a block with every output given the terminator's own op.
RECURSIVE linear_jumps_own_op(_, _, _, _)
linear_jumps_own_op(G, order, i, j) ==
    LET node == G.nodes[order[i]]
        next == IF i + 1 <= Len(order) THEN order[i + 1] ELSE NULL
    IN IF j > Len(node.outputs) THEN << >>
       ELSE (IF node.outputs[j].node = next THEN << >>
             ELSE << Inst(node.output_inst.op,
                          get_label(G, order, node.outputs[j].node)) >>)
            \o linear_jumps_own_op(G, order, i, j + 1)

\* The jumps and branches to_linear emits for the outputs of the block at
\* position i of order, from output j on.
RECURSIVE linear_jumps(_, _, _, _)
linear_jumps(G, order, i, j) ==
    LET node == G.nodes[order[i]]
        next == IF i + 1 <= Len(order) THEN order[i + 1] ELSE NULL
        op == node.output_inst.op
    IN IF j > Len(node.outputs) THEN << >>
       ELSE (IF node.outputs[j].node = next THEN << >>
             ELSE << Inst(IF j > 1 /\ IsBranchOp(op) THEN InvertBranch(op)
                          ELSE op,
                          get_label(G, order, node.outputs[j].node)) >>)
            \o linear_jumps(G, order, i, j + 1)

\* Whether the block at position i of order has more inputs than one, has
\* the entry label or comes after a switch block: the test of to_linear
\* without the comparison of a single input with the previous block.
linear_has_label_many(G, order, i) ==
    LET node == G.nodes[order[i]]
    IN \/ Len(node.inputs) > 1
       \/ node.label = EntryLabel
       \/ \E k \in 1..Len(node.inputs) : is_switch(G, node.inputs[k])

\* Whether to_linear emits the label of the block at position i of order.
linear_has_label(G, order, i) ==
    LET node == G.nodes[order[i]]
        prev == IF i > 1 THEN order[i - 1] ELSE NULL
    IN \/ Len(node.inputs) > 1
       \/ (Len(node.inputs) = 1 /\ prev # node.inputs[1])
       \/ node.label = EntryLabel
       \/ \E k \in 1..Len(node.inputs) : is_switch(G, node.inputs[k])

\* What to_linear emits after the code of the block at position i.
linear_terminator(G, order, i) ==
    LET node == G.nodes[order[i]] IN
    IF node.output_inst.op = "ASM_NULL" THEN << >>
    ELSE IF is_switch(G, order[i]) \/ Len(node.outputs) = 0
    THEN << node.output_inst >>
    ELSE linear_jumps(G, order, i, 1)

\* The body of the main loop of to_linear for position i of order.
linear_node(G, order, i) ==
    (IF linear_has_label(G, order, i)
     THEN << Inst("ASM_LABEL", get_label(G, order, order[i])) >> ELSE << >>)
    \o G.nodes[order[i]].code
    \o linear_terminator(G, order, i)

RECURSIVE linear_code(_, _, _)
linear_code(G, order, i) ==
    IF i > Len(order) THEN << >>
    ELSE linear_node(G, order, i) \o linear_code(G, order, i + 1)

\* asm_graph_t::to_linear: the graph it leaves and the code it returns.
to_linear(G, order) ==
    LET t == linear_tables(order, 1, [g |-> G, table |-> << >>, code |-> << >>])
    IN [g |-> t.g, code |-> linear_code(t.g, order, 1) \o t.code]

(***************************************************************************)
(* The state.                                                              *)
(***************************************************************************)
VARIABLES
    \* --- the assembly graph (asm_graph_t) and its caller ---
    pc,          \* "build", "appended", "ready", "opt" or "error"
    nodes,       \* node_pool
    list,        \* the list of live nodes
    label_map,   \* label -> node
    to_lookup,   \* deferred lookups
    err,         \* the exception thrown, "" when none
    stream,      \* the instruction stream that was given to append_code
    changed,     \* the value the last pass returned
    last,        \* the operation that ran last
    hist,        \* the graphs left by the last consecutive optimize() calls
    parity,      \* the number of iterations optimize() has run, modulo 2
    \* --- the SSA IR (ir_t) and o_remove_unused_ssa ---
    ssa_pc,      \* "idle", "start", "linked", "drain" or "done"
    ssa,         \* the IR
    ssa0,        \* the IR o_remove_unused_ssa was called on
    ssa_worklist,\* ssa_worklist
    ssa_changed, \* `changed` of o_remove_unused_ssa
    ssa_marked,  \* the nodes that had FLAG_PRUNED when the worklist drained
    ssa_fn,      \* the function called on the IR
    ssa_hist,    \* what the consecutive calls of o_remove_unused_ssa returned
    \* --- liveness of the assembly graph ---
    vlive,       \* node -> [in, out], << >> before calc_liveness has run
    live_map,    \* the locator map calc_liveness was called with
    lvars,       \* what build_lvars returned, and the parameters referenced
    live_pc,     \* "idle", "loop" or "done": where calc_liveness is
    live_st,     \* its bitsets, worklist and flags while its loop runs
    \* --- order() ---
    vcover,      \* node -> [path_input, path_output, list_end]
    paths,       \* the paths collected
    result,      \* the vector order() returned
    order_env,   \* what the calls of order() got from the cfg and std::sort
    linear       \* the code to_linear returned

asm_vars ==
    <<pc, nodes, list, label_map, to_lookup, err, stream, changed, last, hist,
      parity>>

ssa_vars ==
    <<ssa_pc, ssa, ssa0, ssa_worklist, ssa_changed, ssa_marked, ssa_fn,
      ssa_hist>>

live_vars == <<vlive, live_map, lvars, live_pc, live_st>>

order_vars == <<vcover, paths, result, order_env, linear>>

vars == <<asm_vars, ssa_vars, live_vars, order_vars>>

\* The graph value of the current state, and the assignment of one.
Graph ==
    [ nodes |-> nodes, list |-> list, label_map |-> label_map,
      to_lookup |-> to_lookup, err |-> err ]

SetGraph(G) ==
    /\ nodes' = G.nodes
    /\ list' = G.list
    /\ label_map' = G.label_map
    /\ to_lookup' = G.to_lookup
    /\ err' = G.err

(***************************************************************************)
(* The instruction streams given to append_code: every stream of at most   *)
(* MaxStream instructions over Insts, and the streams of the scenarios.    *)
(***************************************************************************)
Insts ==
    { Inst("ASM_LABEL", l) : l \in Labels }
    \cup { Inst("JMP_ABSOLUTE", l) : l \in Labels }
    \cup { Inst("BEQ_RELATIVE", l) : l \in Labels }
    \cup { Inst("BNE_RELATIVE", 2), Inst("RTS_IMPLIED", NULL),
           Inst("LDA_IMMEDIATE", 1), Inst("STA_ABSOLUTE", NULL),
           Inst("ASM_PRUNED", NULL) }

\* LABEL L1; NOP; JMP L2; LABEL L2; RTS
StreamJump ==
    << Inst("ASM_LABEL", EntryLabel), Inst("NOP_IMPLIED", NULL),
       Inst("JMP_ABSOLUTE", 2), Inst("ASM_LABEL", 2),
       Inst("RTS_IMPLIED", NULL) >>

\* LABEL L1; LDA #1; STA $00; RTS; LABEL L2; LDA #2; STA $00; RTS
StreamReturns ==
    << Inst("ASM_LABEL", EntryLabel), Inst("LDA_IMMEDIATE", 1),
       Inst("STA_ABSOLUTE", NULL), Inst("RTS_IMPLIED", NULL),
       Inst("ASM_LABEL", 2), Inst("LDA_IMMEDIATE", 2),
       Inst("STA_ABSOLUTE", NULL), Inst("RTS_IMPLIED", NULL) >>

Streams ==
    UNION { [1..n -> Insts] : n \in 0..MaxStream }
    \cup {StreamJump, StreamReturns}

(***************************************************************************)
(* The assembly graph's operations.                                        *)
(***************************************************************************)
InitAsm ==
    /\ pc = "build"
    /\ nodes = NewGraph.nodes
    /\ list = NewGraph.list
    /\ label_map = NewGraph.label_map
    /\ to_lookup = NewGraph.to_lookup
    /\ err = NewGraph.err
    /\ stream = << >>
    /\ changed = FALSE
    /\ last = "asm_graph_t"
    /\ hist = << >>
    /\ parity = 0

AppendCodeFrom(streams) ==
    /\ pc = "build"
    /\ \E s \in streams :
         LET G == append_code(Graph, s) IN
         /\ SetGraph(G)
         /\ stream' = s
         /\ pc' = IF G.err = "" THEN "appended" ELSE "error"
    /\ last' = "append_code"
    /\ UNCHANGED <<changed, hist, parity>>
    /\ UNCHANGED <<ssa_vars, live_vars, order_vars>>

AppendCode == AppendCodeFrom(Streams)

FinishAppending ==
    /\ pc = "appended"
    /\ LET G == finish_appending(Graph) IN
         /\ SetGraph(G)
         /\ pc' = IF G.err = "" THEN "ready" ELSE "error"
    /\ last' = "finish_appending"
    /\ UNCHANGED <<stream, changed, hist, parity>>
    /\ UNCHANGED <<ssa_vars, live_vars, order_vars>>

\* A pass of the optimiser called on its own.
RunPass(name, r) ==
    /\ pc = "ready"
    /\ SetGraph(r.g)
    /\ changed' = r.changed
    /\ last' = name
    /\ hist' = << >>
    /\ UNCHANGED <<pc, stream, parity>>
    /\ UNCHANGED <<ssa_vars, live_vars, order_vars>>

ORemoveStubs == RunPass("o_remove_stubs", o_remove_stubs(Graph))
ORemoveBranches == RunPass("o_remove_branches", o_remove_branches(Graph))
OReturns == RunPass("o_returns", o_returns(Graph))
OPeephole == RunPass("o_peephole", o_peephole(Graph))

\* optimize() is entered ...
OptimizeBegin ==
    /\ pc = "ready"
    /\ Len(hist) < 2
    /\ pc' = "opt"
    /\ parity' = 0
    /\ UNCHANGED <<nodes, list, label_map, to_lookup, err, stream, changed,
                   last, hist>>
    /\ UNCHANGED <<ssa_vars, live_vars, order_vars>>

\* ... and runs the body of its loop until no pass reports a change.
OptimizeIter ==
    /\ pc = "opt"
    /\ LET r == optimize_iter(Graph) IN
         /\ SetGraph(r.g)
         /\ changed' = r.changed
         /\ pc' = IF r.changed THEN "opt" ELSE "ready"
         /\ hist' = IF r.changed THEN hist ELSE Append(hist, r.g)
    /\ last' = "optimize"
    /\ parity' = 1 - parity
    /\ UNCHANGED stream
    /\ UNCHANGED <<ssa_vars, live_vars, order_vars>>

(***************************************************************************)
(* The function bodies liveness is computed for: the blocks of a few       *)
(* control-flow shapes, filled with every code of at most MaxCode          *)
(* instructions over LiveInsts.                                            *)
(***************************************************************************)
LiveInsts ==
    { Inst("LDA_ABSOLUTE", LocX), Inst("INC_ABSOLUTE", LocX),
      Inst("MAYBE_STA", LocX), Inst("MAYBE_STA", LocArg),
      Inst("JSR_ABSOLUTE", LocFn) }

LiveCodes == UNION { [1..n -> LiveInsts] : n \in 0..MaxCode }

Lbl(l) == << Inst("ASM_LABEL", l) >>
Jmp(l) == << Inst("JMP_ABSOLUTE", l) >>
Beq(l) == << Inst("BEQ_RELATIVE", l) >>
Rts == << Inst("RTS_IMPLIED", NULL) >>

LiveStreams ==
    \* a straight body
    { Lbl(EntryLabel) \o c1 \o Rts : c1 \in LiveCodes }
    \* a store that is read and a store that is not
    \cup { Lbl(EntryLabel)
             \o << Inst("MAYBE_STA", LocX), Inst("LDA_ABSOLUTE", LocX),
                   Inst("MAYBE_STA", LocX) >> \o Rts }
    \* a loop no return is reached from
    \cup { Lbl(EntryLabel) \o c1 \o Lbl(2) \o c2 \o Jmp(2) :
             c1 \in LiveCodes, c2 \in LiveCodes }
    \* a loop with an exit
    \cup { Lbl(EntryLabel) \o Lbl(2) \o c1 \o Beq(2) \o c2 \o Rts :
             c1 \in LiveCodes, c2 \in LiveCodes }
    \* a branch around a block
    \cup { Lbl(EntryLabel) \o Beq(2) \o c1 \o Lbl(2) \o c2 \o Rts :
             c1 \in LiveCodes, c2 \in LiveCodes }
    \* a branch to a loop no return is reached from
    \cup { Lbl(EntryLabel) \o Beq(2) \o c1 \o Rts \o Lbl(2) \o c2 \o Jmp(2) :
             c1 \in LiveCodes, c2 \in LiveCodes }

\* The map of build_lvars.
LvarsMap == << LocX, LocArg, LocRet >>

NoLvars == [interf |-> {}, fn_interf |-> {}, ref |-> {}]

\* calc_liveness before it has allocated anything.
NoLiveSt == [L |-> << >>, wl |-> << >>, inwl |-> {}, processed |-> {}]

IdleLive ==
    /\ vlive = << >>
    /\ live_map = << >>
    /\ lvars = NoLvars
    /\ live_pc = "idle"
    /\ live_st = NoLiveSt

LiveAppendCode == AppendCodeFrom(LiveStreams)

\* calc_liveness called by build_lvars.
CalcLiveness ==
    /\ pc = "ready"
    /\ vlive' = calc_liveness(Graph, LvarsMap)
    /\ live_map' = LvarsMap
    /\ lvars' = NoLvars
    /\ last' = "calc_liveness"
    /\ UNCHANGED <<live_pc, live_st>>
    /\ UNCHANGED <<pc, nodes, list, label_map, to_lookup, err, stream, changed,
                   hist, parity>>
    /\ UNCHANGED <<ssa_vars, order_vars>>

RemoveMaybes ==
    /\ pc = "ready"
    /\ LET r == remove_maybes(Graph) IN
         /\ SetGraph(r.g)
         /\ vlive' = r.L
         /\ live_map' = r.map
    /\ lvars' = NoLvars
    /\ last' = "remove_maybes"
    /\ UNCHANGED <<live_pc, live_st>>
    /\ hist' = << >>
    /\ UNCHANGED <<pc, stream, changed, parity>>
    /\ UNCHANGED <<ssa_vars, order_vars>>

\* The function bodies build_lvars is called on: two blocks in a row, and a
\* branch around a block, filled with every code of at most MaxCode
\* instructions over LvarInsts.
LvarInsts ==
    { Inst("LDA_ABSOLUTE", LocX), Inst("LDA_ABSOLUTE", LocP1),
      Inst("STA_ABSOLUTE", LocP1), Inst("LDA_ABSOLUTE", LocP2),
      Inst("STA_ABSOLUTE", LocP2), Inst("JSR_ABSOLUTE", LocFn) }

LvarCodes == UNION { [1..n -> LvarInsts] : n \in 0..MaxCode }

LvarStreams ==
    { Lbl(EntryLabel) \o c1 \o Lbl(2) \o c2 \o Rts :
        c1 \in LvarCodes, c2 \in LvarCodes }
    \cup { Lbl(EntryLabel) \o c1 \o Beq(2) \o c2 \o Lbl(2) \o Rts :
             c1 \in LvarCodes, c2 \in LvarCodes }

\* lvars.map() of the compiled function.
ParamsMap == << LocX, LocP1, LocP2, LocRet >>

\* The parameters an instruction of the graph names.
NamedParams ==
    { loc \in {LocP1, LocP2} :
        \E n \in Range(list) : \E k \in 1..Len(nodes[n].code) :
            nodes[n].code[k].arg = loc }

LvarsAppendCode == AppendCodeFrom(LvarStreams)

\* build_lvars; the parameters the function references are at least those
\* its code names.
BuildLvars ==
    /\ pc = "ready"
    /\ \E ref \in SUBSET {LocP1, LocP2} :
         /\ NamedParams \subseteq ref
         /\ LET r == build_lvars(Graph, ParamsMap, ref) IN
              /\ vlive' = r.L
              /\ lvars' = [interf |-> r.interf, fn_interf |-> r.fn_interf,
                           ref |-> ref]
    /\ live_map' = ParamsMap
    /\ last' = "build_lvars"
    /\ UNCHANGED <<live_pc, live_st>>
    /\ UNCHANGED <<pc, nodes, list, label_map, to_lookup, err, stream, changed,
                   hist, parity>>
    /\ UNCHANGED <<ssa_vars, order_vars>>

NextLvars ==
    \/ LvarsAppendCode
    \/ FinishAppending
    \/ BuildLvars

\* calc_liveness is entered: the bitsets are set up and the worklist seeded.
LiveBegin ==
    /\ pc = "ready"
    /\ last = "finish_appending"
    /\ live_pc = "idle"
    /\ LET W == live_seed(Graph) IN
         live_st' = [ L |-> live_init(Graph, LvarsMap), wl |-> W.wl,
                      inwl |-> W.inwl, processed |-> {} ]
    /\ live_pc' = "loop"
    /\ live_map' = LvarsMap
    /\ last' = "calc_liveness:loop"
    /\ UNCHANGED <<vlive, lvars>>
    /\ UNCHANGED <<pc, nodes, list, label_map, to_lookup, err, stream, changed,
                   hist, parity>>
    /\ UNCHANGED <<ssa_vars, order_vars>>

\* One iteration of its worklist loop.
LiveIter ==
    /\ live_pc = "loop"
    /\ live_st.wl # << >>
    /\ live_st' = live_iter(Graph, live_st)
    /\ UNCHANGED <<vlive, live_map, lvars, live_pc>>
    /\ UNCHANGED <<asm_vars, ssa_vars, order_vars>>

\* The worklist is empty and a node is not processed: the nodes that are
\* not processed are pushed, goto reenter.
LiveReenter ==
    /\ live_pc = "loop"
    /\ live_st.wl = << >>
    /\ LET W == live_unprocessed(Graph, live_st) IN
         /\ W.wl # << >>
         /\ live_st' = [live_st EXCEPT !.wl = W.wl, !.inwl = W.inwl]
    /\ UNCHANGED <<vlive, live_map, lvars, live_pc>>
    /\ UNCHANGED <<asm_vars, ssa_vars, order_vars>>

\* The worklist is empty and every node is processed: the out sets are
\* computed and calc_liveness returns.
LiveFinish ==
    /\ live_pc = "loop"
    /\ live_st.wl = << >>
    /\ live_unprocessed(Graph, live_st).wl = << >>
    /\ vlive' = live_out(Graph, live_st.L)
    /\ live_pc' = "done"
    /\ last' = "calc_liveness"
    /\ UNCHANGED <<live_map, lvars, live_st>>
    /\ UNCHANGED <<pc, nodes, list, label_map, to_lookup, err, stream, changed,
                   hist, parity>>
    /\ UNCHANGED <<ssa_vars, order_vars>>

LiveLoop == LiveIter \/ LiveReenter \/ LiveFinish

NextLiveLoop ==
    \/ LiveAppendCode
    \/ FinishAppending
    \/ LiveBegin
    \/ LiveIter
    \/ LiveReenter
    \/ LiveFinish

NextLive ==
    \/ LiveAppendCode
    \/ FinishAppending
    \/ CalcLiveness
    \/ RemoveMaybes

(***************************************************************************)
(* order()                                                                 *)
(***************************************************************************)
\* The values edge_depth may have for the cfg nodes of the graph.
EdgeDepths == {0, 1}

\* A seed that a repeated call replaces by another one.
order_seed_by_call == IF last = "order" THEN 1 ELSE 1588444912

\* The state of rng after std::minstd_rand rng(0xDEADBEEF): the seed modulo
\* 2^31 - 1.
order_seed == 1588444912

\* The orders best_order can end as: up to the limit the order the
\* enumeration of the permutations ends with, above it the order the random
\* search ends with.
best_orders(G, ps) ==
    LET all == Perms(Len(ps))
        cost == [ p \in all |-> cost_fn(G, ps, p) ]
    IN IF Len(ps) <= SOLVE_OPTIMALLY_LIMIT
       THEN { solve_optimally(Len(ps), cost) }
       ELSE { random_search(Len(ps), cost, order_seed) }

\* The environment of order(): the loop depth the cfg gives (it is a
\* property of the cfg, the same on every call), the last input and output
\* of std::sort (the sort is a function: the same input gives the same
\* output), and the number of calls of order(), counted up to 2.
NoEnv == [calls |-> 0, depth |-> 0, es |-> << >>, eo |-> << >>]

IdleOrder ==
    /\ vcover = << >>
    /\ paths = << >>
    /\ result = << >>
    /\ order_env = NoEnv
    /\ linear = << >>

Order ==
    /\ pc = "ready"
    /\ \E depth \in EdgeDepths :
         /\ order_env.calls > 0 => depth = order_env.depth
         /\ LET es == elim_edges(Graph, depth, 1) IN
            \E eo \in sorted_orders(es) :
              /\ (order_env.calls > 0 /\ order_env.es = es) => eo = order_env.eo
              /\ LET vc == path_cover(Graph, cover_reset(Graph), eo, 1)
                     ps == collect_paths(Graph, vc, 1)
                 IN \E best \in best_orders(Graph, ps) :
                      /\ vcover' = vc
                      /\ paths' = ps
                      /\ result' = gather(ps, best, 1)
              /\ order_env' = [calls |-> Min2(order_env.calls + 1, 2),
                               depth |-> depth, es |-> es, eo |-> eo]
    /\ last' = "order"
    /\ UNCHANGED <<pc, nodes, list, label_map, to_lookup, err, stream, changed,
                   hist, parity, linear>>
    /\ UNCHANGED <<ssa_vars, live_vars>>

\* Streams of five paths or more for order(): three blocks that return,
\* then a block that branches over a return to the label the stream ends
\* with.
RunCodes ==
    UNION { [1..n -> { Inst("NOP_IMPLIED", NULL), Inst("LDA_IMMEDIATE", 1) }] :
              n \in 0..MaxCode }

RunStreams ==
    { c1 \o Rts \o c2 \o Rts \o c3 \o Rts
         \o Lbl(EntryLabel) \o Beq(2) \o Rts \o Lbl(2) :
        c1 \in RunCodes, c2 \in RunCodes, c3 \in RunCodes }

RunsAppendCode == AppendCodeFrom(RunStreams)

\* The return blocks the tail-call rewrite of o_returns asks for: two blocks
\* without outputs, the first with the entry label, each with a terminator
\* that is RTS_IMPLIED or none and a code that is empty or ends in a call or
\* a store.
TailInsts == { Inst("JSR_ABSOLUTE", LocFn), Inst("STA_ABSOLUTE", NULL) }

ReturnCodes == { << >> } \cup { p \o << i >> : p \in RunCodes, i \in TailInsts }

ReturnInsts == { Inst("RTS_IMPLIED", NULL), NoInst }

ReturnBlocks(c1, t1, c2, t2) ==
    LET G == push_back(push_back(EmptyGraph, EntryLabel, FALSE), NULL, FALSE)
    IN [G EXCEPT !.nodes[1].code = c1, !.nodes[1].output_inst = t1,
                 !.nodes[2].code = c2, !.nodes[2].output_inst = t2]

InitReturnBlocks ==
    /\ pc = "ready"
    /\ \E c1 \in ReturnCodes, c2 \in ReturnCodes :
         \E t1 \in ReturnInsts, t2 \in ReturnInsts :
           LET G == ReturnBlocks(c1, t1, c2, t2) IN
           /\ nodes = G.nodes
           /\ list = G.list
           /\ label_map = G.label_map
           /\ to_lookup = G.to_lookup
           /\ err = G.err
    /\ stream = << >>
    /\ changed = FALSE
    /\ last = "asm_graph_t"
    /\ hist = << >>
    /\ parity = 0

NextReturns == OReturns

\* The streams to_linear is reached with: the streams of append_code, and
\* a switch of cfg node 2 between two blocks of code.
SwitchStreams ==
    { Lbl(2) \o c1 \o << SwitchInst(2, off) >> \o Lbl(EntryLabel) \o c2 \o Rts :
        c1 \in RunCodes, c2 \in RunCodes, off \in {0, 4} }

LinearStreams == Streams \cup SwitchStreams

LinearAppendCode == AppendCodeFrom(LinearStreams)

\* to_linear called with the vector order() returned, once: it ends the work
\* on the graph.
ToLinear ==
    /\ pc = "ready"
    /\ last = "order"
    /\ linear = << >>
    /\ LET r == to_linear(Graph, result) IN
         /\ SetGraph(r.g)
         /\ linear' = r.code
    /\ last' = "to_linear"
    /\ UNCHANGED <<pc, stream, changed, hist, parity>>
    /\ UNCHANGED <<vcover, paths, result, order_env>>
    /\ UNCHANGED <<ssa_vars, live_vars>>

NextLinear ==
    \/ LinearAppendCode
    \/ FinishAppending
    \/ Order
    \/ ToLinear

\* The streams to_linear is reached with when the order holds several
\* switch blocks: those of to_linear, and the switches of cfg nodes 2 and 4,
\* either first.
TwoSwitchStreams ==
    { Lbl(ab[1]) \o c1 \o << SwitchInst(ab[1], 0) >> \o Lbl(ab[2])
         \o << SwitchInst(ab[2], 0) >> \o Lbl(EntryLabel) \o Rts :
        c1 \in RunCodes, ab \in { << 2, 4 >>, << 4, 2 >> } }

TablesAppendCode == AppendCodeFrom(LinearStreams \cup TwoSwitchStreams)

NextTables ==
    \/ TablesAppendCode
    \/ FinishAppending
    \/ Order
    \/ ToLinear

\* The streams o_remove_branches is reached with: those of to_linear, and a
\* switch of cfg node 3, whose two cases have one target.
SameTargetStreams ==
    { Lbl(2) \o c1 \o << SwitchInst(3, 0) >> \o Lbl(EntryLabel) \o Rts :
        c1 \in RunCodes }

BranchesAppendCode == AppendCodeFrom(LinearStreams \cup SameTargetStreams)

NextBranches ==
    \/ BranchesAppendCode
    \/ FinishAppending
    \/ ORemoveBranches

NextRuns ==
    \/ RunsAppendCode
    \/ FinishAppending
    \/ Order

NextOrder ==
    \/ AppendCode
    \/ FinishAppending
    \/ ORemoveStubs
    \/ Order

NextAsm ==
    \/ AppendCode
    \/ FinishAppending
    \/ ORemoveStubs
    \/ ORemoveBranches
    \/ OReturns
    \/ OPeephole
    \/ OptimizeBegin
    \/ OptimizeIter

(***************************************************************************)
(* The IRs o_remove_unused_ssa is called on: every IR of at most MaxSsa     *)
(* nodes of one input each, and the IRs of the scenarios.                  *)
(***************************************************************************)
SsaNode(o, f, ins) == [op |-> o, fn |-> f, inputs |-> ins]

SsaKinds ==
    { <<"if", "none">>, <<"return", "none">>, <<"fn_call", "pure">>,
      <<"fn_call", "impure">>, <<"add", "none">>, <<"write", "none">>,
      <<"carry", "none">> }

\* The descriptions of n nodes: an op and one input, a node or NULL.
SsaDescs(n) ==
    [ 1..n -> { SsaNode(k[1], k[2], <<v>>) : k \in SsaKinds, v \in 0..n } ]

\* The input 0 of a link member is a node, and following it ends at a node
\* that is no link member.
RECURSIVE LinkEnds(_, _, _)
LinkEnds(d, h, fuel) ==
    IF ssa_input0_class(d[h].op) # "LINK" THEN TRUE
    ELSE IF fuel = 0 \/ Len(d[h].inputs) = 0 THEN FALSE
    ELSE IF d[h].inputs[1] = NULL THEN FALSE
    ELSE LinkEnds(d, d[h].inputs[1], fuel - 1)

WellLinked(d) == \A h \in 1..Len(d) : LinkEnds(d, h, Len(d))

\* The input slots <<user, slot>> of the nodes from u on, in order.
RECURSIVE AllSlots(_, _)
AllSlots(d, u) ==
    IF u > Len(d) THEN << >>
    ELSE [ k \in 1..Len(d[u].inputs) |-> <<u, k>> ] \o AllSlots(d, u + 1)

\* The IR of a description: the output edges are the reverse index of the
\* inputs, no flag is set.
MakeIR(d) ==
    [ node |->
        [ h \in 1..Len(d) |->
            [ op |-> d[h].op, fn |-> d[h].fn, inputs |-> d[h].inputs,
              outputs |-> SelectSeq(AllSlots(d, 1),
                                    LAMBDA e : d[e[1]].inputs[e[2]] = h),
              flags |-> {}, cut |-> {} ] ],
      order |-> [ h \in 1..Len(d) |-> h ] ]

\* Three arithmetic nodes and an `if` that depends on the first two only.
IrDeadValue ==
    << SsaNode("add", "none", <<NULL, NULL>>), SsaNode("add", "none", <<1, NULL>>),
       SsaNode("add", "none", <<1, 2>>), SsaNode("if", "none", <<2>>) >>

\* A link chain of a root and two members, and a second chain whose root
\* uses the first root and whose last member is returned.
IrLinkChain ==
    << SsaNode("add", "none", <<NULL, NULL>>), SsaNode("carry", "none", <<1>>),
       SsaNode("carry", "none", <<2>>), SsaNode("add", "none", <<1, NULL>>),
       SsaNode("carry", "none", <<4>>), SsaNode("return", "none", <<5>>) >>

\* A call of a pure and a call of an impure function, results unused.
IrCalls ==
    << SsaNode("add", "none", <<NULL, NULL>>), SsaNode("fn_call", "pure", <<1>>),
       SsaNode("fn_call", "impure", <<1>>) >>

\* A link chain of a root and two members that nothing outside the chain
\* uses, next to a chain whose last member is returned.
IrLinkUnused ==
    << SsaNode("add", "none", <<NULL, NULL>>), SsaNode("carry", "none", <<1>>),
       SsaNode("carry", "none", <<2>>), SsaNode("add", "none", <<NULL, NULL>>),
       SsaNode("carry", "none", <<4>>), SsaNode("return", "none", <<5>>) >>

\* A root and its link member, which also uses a value that nothing else
\* uses and that comes last in the list.
IrLinkValue ==
    << SsaNode("add", "none", <<NULL>>), SsaNode("carry", "none", <<1, 3>>),
       SsaNode("add", "none", <<NULL>>) >>

\* A call of a pure function whose result is used by a value that uses
\* itself, as a phi of a loop does, and by nothing else.
IrCallCycle ==
    << SsaNode("fn_call", "pure", <<NULL>>), SsaNode("add", "none", <<1, 2>>) >>

\* A root and its link member, whose value is used by a value that uses
\* itself and by nothing else.
IrLinkCycle ==
    << SsaNode("add", "none", <<NULL>>), SsaNode("carry", "none", <<1>>),
       SsaNode("add", "none", <<2, 3>>) >>

SsaIRs ==
    { MakeIR(d) : d \in { x \in UNION { SsaDescs(n) : n \in 1..MaxSsa } :
                            WellLinked(x) } }
    \cup { MakeIR(IrDeadValue), MakeIR(IrLinkChain), MakeIR(IrCalls),
           MakeIR(IrLinkUnused), MakeIR(IrLinkValue), MakeIR(IrCallCycle),
           MakeIR(IrLinkCycle) }

(***************************************************************************)
(* o_remove_unused_ssa, one action for each loop iteration of its passes.  *)
(***************************************************************************)
IdleSsa ==
    /\ ssa_pc = "idle"
    /\ ssa = MakeIR(<< >>)
    /\ ssa0 = MakeIR(<< >>)
    /\ ssa_worklist = << >>
    /\ ssa_changed = FALSE
    /\ ssa_marked = {}
    /\ ssa_fn = "none"
    /\ ssa_hist = << >>

InitSsa ==
    /\ ssa_pc = "start"
    /\ ssa \in SsaIRs
    /\ ssa0 = ssa
    /\ ssa_worklist = << >>
    /\ ssa_changed = FALSE
    /\ ssa_marked = {}
    /\ ssa_fn = "none"
    /\ ssa_hist = << >>

SetSsa(W) ==
    /\ ssa' = W.S
    /\ ssa_worklist' = W.wl

\* o_remove_unused_linked is entered: the worklist is seeded.
LinkedBegin ==
    /\ ssa_pc = "start"
    /\ SetSsa(linked_seed(ssa))
    /\ ssa_pc' = "linked"
    /\ ssa_changed' = FALSE
    /\ ssa_fn' = "o_remove_unused_ssa"
    /\ UNCHANGED <<ssa0, ssa_marked, ssa_hist>>
    /\ UNCHANGED <<asm_vars, live_vars, order_vars>>

\* One iteration of its worklist loop.
LinkedIter ==
    /\ ssa_pc = "linked"
    /\ ssa_worklist # << >>
    /\ LET r == linked_iter([S |-> ssa, wl |-> ssa_worklist]) IN
         /\ SetSsa(r)
         /\ ssa_changed' = (ssa_changed \/ r.changed)
    /\ UNCHANGED <<ssa_pc, ssa0, ssa_marked, ssa_fn, ssa_hist>>
    /\ UNCHANGED <<asm_vars, live_vars, order_vars>>

\* o_remove_unused_linked returns and o_remove_no_effect marks the nodes.
NoEffectMark ==
    /\ ssa_pc = "linked"
    /\ ssa_worklist = << >>
    /\ SetSsa(no_effect_mark(ssa))
    /\ ssa_pc' = "drain"
    /\ UNCHANGED <<ssa0, ssa_changed, ssa_marked, ssa_fn, ssa_hist>>
    /\ UNCHANGED <<asm_vars, live_vars, order_vars>>

\* o_remove_no_effect is called on its own.
NoEffectAlone ==
    /\ ssa_pc = "start"
    /\ SetSsa(no_effect_mark(ssa))
    /\ ssa_pc' = "drain"
    /\ ssa_fn' = "o_remove_no_effect"
    /\ UNCHANGED <<ssa0, ssa_changed, ssa_marked, ssa_hist>>
    /\ UNCHANGED <<asm_vars, live_vars, order_vars>>

\* One iteration of the drain loop.
NoEffectIter ==
    /\ ssa_pc = "drain"
    /\ ssa_worklist # << >>
    /\ SetSsa(no_effect_iter([S |-> ssa, wl |-> ssa_worklist]))
    /\ UNCHANGED <<ssa_pc, ssa0, ssa_changed, ssa_marked, ssa_fn, ssa_hist>>
    /\ UNCHANGED <<asm_vars, live_vars, order_vars>>

\* The worklist is drained: the sweep, and o_remove_unused_ssa returns.
NoEffectSweep ==
    /\ ssa_pc = "drain"
    /\ ssa_worklist = << >>
    /\ LET r == no_effect_sweep(ssa, 1, FALSE) IN
         /\ ssa' = r.S
         /\ ssa_changed' = (ssa_changed \/ r.changed)
         /\ ssa_hist' =
              IF ssa_fn = "o_remove_unused_ssa"
              THEN Append(ssa_hist, [ changed |-> ssa_changed \/ r.changed,
                                      order |-> r.S.order ])
              ELSE ssa_hist
    /\ ssa_marked' = { h \in Range(ssa.order) : "PRUNED" \in ssa.node[h].flags }
    /\ ssa_pc' = "done"
    /\ UNCHANGED <<ssa0, ssa_worklist, ssa_fn>>
    /\ UNCHANGED <<asm_vars, live_vars, order_vars>>

\* o_remove_unused_ssa has returned and is called again on the IR it left.
UnusedSsaAgain ==
    /\ ssa_pc = "done"
    /\ ssa_fn = "o_remove_unused_ssa"
    /\ Len(ssa_hist) < 2
    /\ SetSsa(linked_seed(ssa))
    /\ ssa_pc' = "linked"
    /\ ssa_changed' = FALSE
    /\ UNCHANGED <<ssa0, ssa_marked, ssa_fn, ssa_hist>>
    /\ UNCHANGED <<asm_vars, live_vars, order_vars>>

NextSsa ==
    \/ LinkedBegin
    \/ LinkedIter
    \/ NoEffectMark
    \/ NoEffectAlone
    \/ NoEffectIter
    \/ NoEffectSweep

Init == InitAsm /\ IdleSsa /\ IdleLive /\ IdleOrder

Next == NextAsm

InitIr == InitAsm /\ InitSsa /\ IdleLive /\ IdleOrder

SpecLive == Init /\ [][NextLive]_vars

SpecLvars == Init /\ [][NextLvars]_vars

\* calc_liveness does not yield: its loops keep running until it returns.
SpecLiveLoop == Init /\ [][NextLiveLoop]_vars /\ WF_vars(LiveLoop)

SpecLinear == Init /\ [][NextLinear]_vars

SpecOrder == Init /\ [][NextOrder]_vars

SpecBranches == Init /\ [][NextBranches]_vars

SpecTables == Init /\ [][NextTables]_vars

SpecRuns == Init /\ [][NextRuns]_vars

InitReturns == InitReturnBlocks /\ IdleSsa /\ IdleLive /\ IdleOrder

SpecReturns == InitReturns /\ [][NextReturns]_vars

SpecSsa == InitIr /\ [][NextSsa]_vars

NextSsaTwice == NextSsa \/ UnusedSsaAgain

SpecSsaTwice == InitIr /\ [][NextSsaTwice]_vars

\* o_remove_unused_linked does not yield: while its worklist is not empty
\* its loop keeps running.
LinkedFair == WF_vars(LinkedIter)

SpecSsaFair == InitIr /\ [][NextSsa]_vars /\ LinkedFair

Spec == Init /\ [][Next]_vars

\* optimize() does not yield: once entered, its loop keeps running.  This is
\* WF_vars(OptimizeIter) written out: OptimizeIter is enabled exactly
\* when pc = "opt", and every iteration changes the state (parity).
OptimizeFair == []<>(pc # "opt") \/ []<><<OptimizeIter>>_vars

SpecOptimize == Init /\ [][Next]_vars /\ OptimizeFair

(***************************************************************************)
(* Properties of the assembly graph.                                       *)
(***************************************************************************)
\* The live nodes, and the number of n's output edges that point at t.
Live == Range(list)

EdgesTo(n, t) ==
    Cardinality({ i \in 1..Len(nodes[n].outputs) : nodes[n].outputs[i].node = t })

\* C1 as stated: for every node n and every non-null output edge of n to a
\* node t, t's input vector contains n exactly once.
C1_InputsContainOnce ==
    \A n \in Live : \A i \in 1..Len(nodes[n].outputs) :
        LET t == nodes[n].outputs[i].node IN
        t # NULL => CountIn(nodes[t].inputs, n) = 1

\* C1 amended: for every node n and every non-null output edge of n to a
\* node t, t's input vector contains n once per output edge of n to t (so at
\* least once, and twice when both outputs of a branch point at t).
C1_InputsContainPerEdge ==
    \A n \in Live : \A i \in 1..Len(nodes[n].outputs) :
        LET t == nodes[n].outputs[i].node IN
        t # NULL =>
            /\ CountIn(nodes[t].inputs, n) >= 1
            /\ CountIn(nodes[t].inputs, n) = EdgesTo(n, t)

\* A pass of optimize has changed the graph and a node has edges to a target
\* that lists it as an input.
C1_Witness ==
    /\ pc = "ready"
    /\ changed
    /\ \E n \in Live : \E i \in 1..Len(nodes[n].outputs) :
         LET t == nodes[n].outputs[i].node IN
         /\ t # NULL
         /\ t # n
         /\ CountIn(nodes[t].inputs, n) = 1

Mergeable(G, a, b) ==
    /\ a # b
    /\ Len(G.nodes[a].outputs) = 0
    /\ Len(G.nodes[b].outputs) = 0
    /\ G.nodes[a].output_inst = G.nodes[b].output_inst
    /\ ~is_switch(G, a)
    /\ ~is_switch(G, b)
    /\ MatchLen(G.nodes[a].code, G.nodes[b].code, 0) >= 2

\* The positions in the list of the first pair the pair loop would merge.
MergeablePairs(G) ==
    { p \in (1..Len(G.list)) \X (1..Len(G.list)) :
        p[1] < p[2] /\ Mergeable(G, G.list[p[1]], G.list[p[2]]) }

FirstMergeable(G) ==
    CHOOSE p \in MergeablePairs(G) :
        \A q \in MergeablePairs(G) :
            p[1] < q[1] \/ (p[1] = q[1] /\ p[2] <= q[2])

\* C10: o_returns merges two distinct return blocks with equal output_inst,
\* no switch and a common code suffix of length L >= 2: a new block holds
\* the suffix and the shared terminator, both originals lose L instructions
\* and each gets a single JMP_ABSOLUTE edge to the new block.
C10_ReturnsMerged ==
    [][ (pc = "ready" /\ last' = "o_returns" /\ MergeablePairs(Graph) # {}) =>
          LET p == FirstMergeable(Graph)
              a == list[p[1]]
              b == list[p[2]]
              L == MatchLen(nodes[a].code, nodes[b].code, 0)
          IN \E new \in (Len(nodes) + 1)..Len(nodes') :
               /\ nodes'[new].code = LastN(nodes[a].code, L)
               /\ nodes'[new].output_inst = nodes[a].output_inst
               /\ nodes'[a].code = Take(nodes[a].code, Len(nodes[a].code) - L)
               /\ nodes'[b].code = Take(nodes[b].code, Len(nodes[b].code) - L)
               /\ nodes'[a].outputs = << Edge(new, -1) >>
               /\ nodes'[b].outputs = << Edge(new, -1) >>
               /\ nodes'[a].output_inst = JmpInst
               /\ nodes'[b].output_inst = JmpInst
      ]_vars

(***************************************************************************)
(* Properties of the SSA dead code elimination.                            *)
(***************************************************************************)
\* The nodes that are in the IR, and those the call has removed.
Surviving == Range(ssa.order)

Removed == DOMAIN ssa0.node \ Surviving

\* The nodes of S reached from the nodes of `from` by following inputs.
RECURSIVE InputClosure(_, _)
InputClosure(S, from) ==
    LET more == from \cup UNION { Range(node_inputs(S, h)) : h \in from } IN
    IF more = from THEN from ELSE InputClosure(S, more)

\* The nodes the soundness statement starts from, read off the op.
IsEffectNode(node) ==
    \/ node.op \in {"if", "return"}
    \/ "WRITE_GLOBALS" \in ssa_flags(node.op)
    \/ "IMPURE" \in ssa_flags(node.op)

\* The effect nodes other than a WRITE_GLOBALS call of an IR-pure callee.
IsFixedEffectNode(node) ==
    /\ IsEffectNode(node)
    /\ ~(node.op = "fn_call" /\ node.fn = "pure"
         /\ "IMPURE" \notin ssa_flags(node.op))

AfterLinked == ssa_pc = "linked" /\ ssa_worklist = << >>

C3_NoRemovedFromEffect ==
    (ssa_pc = "done" /\ ssa_fn = "o_remove_unused_ssa") =>
        \A n \in DOMAIN ssa0.node :
            IsEffectNode(ssa0.node[n]) =>
                InputClosure(ssa0, {n}) \cap Removed = {}

\* C3 amended: after o_remove_unused_ssa, following inputs from an `if`,
\* `return` or IMPURE node, or from a WRITE_GLOBALS node other than a
\* fn_call of an IR-pure callee, the node itself included, never reaches a
\* removed node.
C3_NoRemovedFromFixedEffect ==
    (ssa_pc = "done" /\ ssa_fn = "o_remove_unused_ssa") =>
        \A n \in DOMAIN ssa0.node :
            IsFixedEffectNode(ssa0.node[n]) =>
                InputClosure(ssa0, {n}) \cap Removed = {}

\* o_remove_unused_ssa has removed a node and kept an effect node together
\* with a node it reaches by its inputs.
C3_Witness ==
    /\ ssa_pc = "done"
    /\ ssa_fn = "o_remove_unused_ssa"
    /\ Removed # {}
    /\ \E n \in Surviving :
         /\ IsFixedEffectNode(ssa0.node[n])
         /\ InputClosure(ssa0, {n}) # {n}

\* C4: no node removed during o_remove_unused_ssa had, when it was pruned, a
\* non-LINK output edge to a node that survives the call.
C4_NoCutToSurvivor ==
    (ssa_pc = "done" /\ ssa_fn = "o_remove_unused_ssa") =>
        \A h \in Removed : ssa.node[h].cut \cap Surviving = {}

\* o_remove_unused_ssa has pruned a node that still had a non-LINK output
\* edge, and has kept some other node.
C4_Witness ==
    /\ ssa_pc = "done"
    /\ ssa_fn = "o_remove_unused_ssa"
    /\ Surviving # {}
    /\ \E h \in Removed : ssa.node[h].cut # {}

\* The roots of o_remove_no_effect as the claim lists them.
NoEffectRoots(S) ==
    { h \in Range(S.order) :
        \/ S.node[h].op = "if"
        \/ "WRITE_GLOBALS" \in ssa_flags(S.node[h].op)
        \/ "IMPURE" \in ssa_flags(S.node[h].op)
        \/ ssa_input0_class(S.node[h].op) = "LINK" }

\* C5: when the worklist of o_remove_no_effect is drained, a node has PRUNED
\* clear iff it is reached from a root by following inputs, and the sweep
\* removes exactly the nodes that have PRUNED set.
C5_NoEffectExact ==
    /\ [](ssa_pc = "drain" /\ ssa_worklist = << >> =>
            \A h \in Surviving :
                ("PRUNED" \notin ssa.node[h].flags)
                    <=> (h \in InputClosure(ssa, NoEffectRoots(ssa))))
    /\ [][ssa_pc = "drain" /\ ssa_pc' = "done" =>
            Range(ssa'.order) =
                { h \in Surviving : "PRUNED" \notin ssa.node[h].flags }]_vars

\* o_remove_no_effect has removed a node and kept a node that is no root.
C5_Witness ==
    /\ ssa_pc = "done"
    /\ ssa_marked # {}
    /\ Surviving \ NoEffectRoots(ssa) # {}

(***************************************************************************)
(* Properties of the liveness and of remove_maybes.                        *)
(***************************************************************************)
\* What the code from position k on does first to the locator of index i of
\* map: "read", "write", or "none" when it does not touch it.
RECURSIVE FirstRw(_, _)
FirstRw(es, i) ==
    IF Len(es) = 0 THEN "none"
    ELSE IF es[1].i = i /\ es[1].read THEN "read"
    ELSE IF es[1].i = i /\ es[1].write THEN "write"
    ELSE FirstRw(Tail(es), i)

RECURSIVE FirstAccess(_, _, _, _)
FirstAccess(map, code, k, i) ==
    IF k > Len(code) THEN "none"
    ELSE LET a == FirstRw(do_inst_rw(map, code[k]), i) IN
         IF a # "none" THEN a ELSE FirstAccess(map, code, k + 1, i)

\* GEN(n): the locators read in n before n writes them.
\* KILL(n): the locators n writes.
GenOf(map, code) ==
    { i \in 1..Len(map) : FirstAccess(map, code, 1, i) = "read" }

KillOf(map, code) ==
    { i \in 1..Len(map) :
        \E k \in 1..Len(code) :
            \E j \in 1..Len(do_inst_rw(map, code[k])) :
                /\ do_inst_rw(map, code[k])[j].i = i
                /\ do_inst_rw(map, code[k])[j].write }

SuccOf(N, n) == { N[n].outputs[j].node : j \in 1..Len(N[n].outputs) }

\* The nodes reached from the nodes of `from` by output edges, through the
\* nodes of the set pass.
RECURSIVE OutputClosure(_, _, _)
OutputClosure(N, from, pass) ==
    LET more == from \cup UNION { SuccOf(N, m) : m \in from \cap pass }
    IN IF more = from THEN from ELSE OutputClosure(N, more, pass)

\* C6: after calc_liveness, for every block n, in a loop that reaches no
\* return or not, n.in = ((union of the in of n's successors) \ KILL(n))
\* united with GEN(n), and n.out = the union of the in of n's successors.
C6_LivenessFixedPoint ==
    last = "calc_liveness" =>
        \A n \in Range(list) :
            LET succ == UNION { vlive[m].in : m \in SuccOf(nodes, n) } IN
            /\ vlive[n].in =
                   (succ \ KillOf(live_map, nodes[n].code))
                       \cup GenOf(live_map, nodes[n].code)
            /\ vlive[n].out = succ

\* calc_liveness has returned on a graph with a block that reaches no block
\* without outputs and in which a locator is live that it does not read.
C6_Witness ==
    /\ last = "calc_liveness"
    /\ \E n \in Range(list) :
         /\ vlive[n].in \ GenOf(live_map, nodes[n].code) # {}
         /\ \A m \in OutputClosure(nodes, {n}, Range(list)) :
              Len(nodes[m].outputs) > 0

\* There is a path that starts at position k of the code of node n on which
\* locator x is read before it is written.
ReadBeforeWritten(N, n, k, x) ==
    LET first(m) == FirstAccess(<<x>>, N[m].code, 1, 1)
        here == FirstAccess(<<x>>, N[n].code, k, 1)
    IN \/ here = "read"
       \/ /\ here = "none"
          /\ \E m \in OutputClosure(N, SuccOf(N, n),
                                    { y \in 1..Len(N) : first(y) = "none" }) :
                first(m) = "read"

\* C8: when remove_maybes rewrites a maybe store to ASM_PRUNED, no path that
\* starts after the instruction reads the target of the store before
\* writing it.
C8_PrunedStoreIsDead ==
    [][ last' = "remove_maybes" =>
          \A n \in Range(list) : \A k \in 1..Len(nodes[n].code) :
              (/\ is_maybe_store(nodes[n].code[k].op)
               /\ nodes'[n].code[k].op = "ASM_PRUNED")
              => ~ReadBeforeWritten(nodes', n, k + 1, nodes[n].code[k].arg)
      ]_vars

\* remove_maybes has pruned a store that is followed, in a successor of its
\* block, by an instruction that is no store to its target.
C8_Witness ==
    /\ last = "remove_maybes"
    /\ \E n \in Range(list) : \E k \in 1..Len(nodes[n].code) :
         /\ nodes[n].code[k].op = "ASM_PRUNED"
         /\ \E m \in SuccOf(nodes, n) : \E j \in 1..Len(nodes[m].code) :
              nodes[m].code[j].op \in {"JSR_ABSOLUTE", "RTS_IMPLIED"}

(***************************************************************************)
(* Properties of order().                                                  *)
(***************************************************************************)
\* The path successor of node n, NULL when it has none.
PathNext(n) ==
    IF vcover[n].path_output < 0 THEN NULL
    ELSE nodes[n].outputs[vcover[n].path_output].node

\* The node reached from n after k path edges, NULL when the path ends
\* before.
RECURSIVE PathWalk(_, _)
PathWalk(n, k) ==
    IF k = 0 \/ n = NULL THEN n ELSE PathWalk(PathNext(n), k - 1)

\* The places <<i, k>> of the collected paths that hold node n.
PlacesOf(n) ==
    { pl \in (1..Len(paths)) \X (1..Len(nodes)) :
        pl[2] <= Len(paths[pl[1]]) /\ paths[pl[1]][pl[2]] = n }

\* C7: after the path cover and the collection of the paths, every node of
\* the graph is in exactly one path, the path edges form disjoint simple
\* paths without a cycle, and order() returns every node exactly once.
C7_PathCover ==
    last = "order" =>
        /\ \A n \in Range(list) : Cardinality(PlacesOf(n)) = 1
        /\ \A i \in 1..Len(paths) : Range(paths[i]) \subseteq Range(list)
        /\ \A n \in Range(list) :
             /\ Cardinality({ m \in Range(list) : PathNext(m) = n }) <= 1
             /\ (vcover[n].path_input >= 0)
                    <=> (\E m \in Range(list) : PathNext(m) = n)
             /\ vcover[n].path_input >= 0 =>
                    PathNext(nodes[n].inputs[vcover[n].path_input]) = n
             /\ \A k \in 1..Len(nodes) : PathWalk(n, k) # n
        /\ Len(result) = Len(list)
        /\ Range(result) = Range(list)

\* order() has returned for a graph with a cycle, with two paths or more,
\* one of them of two nodes or more.
C7_Witness ==
    /\ last = "order"
    /\ Len(paths) >= 2
    /\ \E i \in 1..Len(paths) :
         /\ Len(paths[i]) >= 2
         /\ paths[i][1] \in SuccOf(nodes, paths[i][Len(paths[i])])

(***************************************************************************)
(* Properties of the order search.                                         *)
(***************************************************************************)
\* The paths in the order they were collected.
RECURSIVE PathsInOrder(_)
PathsInOrder(k) ==
    IF k > Len(paths) THEN << >> ELSE paths[k] \o PathsInOrder(k + 1)

BranchDistances(G, ps, order) ==
    UNION { LET bs == path_branches(G, ps, i, 1) IN
            { Abs((bs[j].from_offset + path_offset(G, ps, order, i))
                  - (bs[j].to_offset
                       + path_offset(G, ps, order, bs[j].to_path))) :
                j \in 1..Len(bs) } :
              i \in 1..Len(ps) }

\* C13: after order() has collected the paths, every order of them in which
\* every cross-path branch has a distance of at most 123 has cost 0.
C13_NearBranchesCostZero ==
    last = "order" =>
        \A order \in Perms(Len(paths)) :
            (\A d \in BranchDistances(Graph, paths, order) : d <= 123)
                => cost_fn(Graph, paths, order) = 0

(***************************************************************************)
(* Properties of the scenarios and of the passes of optimize.              *)
(***************************************************************************)
\* optimize() has returned for the stream LABEL L1; NOP; JMP L2; LABEL L2;
\* RTS.
AfterOptimizeOfJump ==
    /\ stream = StreamJump
    /\ pc = "ready"
    /\ last = "optimize"

\* C14 as stated: after optimize the graph of that stream is a single block
\* whose code ends NOP; RTS.
C14_SingleBlock ==
    AfterOptimizeOfJump =>
        /\ Len(list) = 1
        /\ LET code == nodes[list[1]].code IN
           /\ Len(code) >= 2
           /\ LastN(code, 2) = << Inst("NOP_IMPLIED", NULL),
                                  Inst("RTS_IMPLIED", NULL) >>

\* C14, amended: after optimize the graph of that stream is two blocks: the
\* entry block L1 with code NOP, terminator JMP and one output, the block L2,
\* whose code is RTS, which has no output and L1 as its only input.
C14_TwoBlocks ==
    AfterOptimizeOfJump =>
        /\ Len(list) = 2
        /\ LET a == nodes[list[1]]
               b == nodes[list[2]]
           IN /\ a.label = EntryLabel
              /\ a.code = << Inst("NOP_IMPLIED", NULL) >>
              /\ a.output_inst = Inst("JMP_ABSOLUTE", 2)
              /\ a.outputs = << Edge(list[2], -1) >>
              /\ a.inputs = << >>
              /\ b.label = 2
              /\ b.code = << Inst("RTS_IMPLIED", NULL) >>
              /\ b.outputs = << >>
              /\ b.inputs = << list[1] >>

\* optimize() has returned for that stream and has pruned the three blocks
\* without code.
C14_Witness ==
    /\ AfterOptimizeOfJump
    /\ Len(nodes) = 5
    /\ Len(list) = 2

\* The calls of the IR o_remove_unused_ssa was called on whose result has no
\* use.
UnusedCalls ==
    { h \in DOMAIN ssa0.node :
        ssa0.node[h].op = "fn_call" /\ Len(ssa0.node[h].outputs) = 0 }

\* C15: o_remove_unused_ssa removes a call whose result is unused when the
\* callee's ir_io_pure() is true, and keeps it when ir_io_pure() is false.
C15_UnusedCall ==
    (ssa_pc = "done" /\ ssa_fn = "o_remove_unused_ssa") =>
        \A h \in UnusedCalls :
            /\ ssa0.node[h].fn = "pure" => h \in Removed
            /\ ssa0.node[h].fn = "impure" => h \in Surviving

\* o_remove_unused_ssa has returned for an IR with an unused call of a pure
\* and an unused call of an impure function.
C15_Witness ==
    /\ ssa_pc = "done"
    /\ ssa_fn = "o_remove_unused_ssa"
    /\ \E h \in UnusedCalls : ssa0.node[h].fn = "pure" /\ h \in Removed
    /\ \E h \in UnusedCalls : ssa0.node[h].fn = "impure" /\ h \in Surviving

\* The can_prune roots of S whose output edges, and those of the nodes they
\* lead to, are all LINK-class.
LinkedRoots(S) ==
    { n \in Range(S.order) :
        can_prune(S.node[n]) /\ build_linked(S, n, 1, << >>).ok }

\* C16: o_remove_unused_linked removes a node only together with a can_prune
\* root that it is or that it descends from by LINK edges, every output edge
\* of the removed nodes being a LINK edge to a removed node; when it returns
\* no can_prune root whose transitive output edges are all LINK-class is
\* left; and of the IR of the unused link chain it removes the three nodes of
\* the chain and leaves every other node as it was.
C16_LinkedRemoval ==
    /\ [][ (ssa_pc = "linked" /\ ssa_pc' = "linked") =>
             LET gone == Range(ssa.order) \ Range(ssa'.order) IN
             gone # {} =>
               \E r \in gone :
                 /\ can_prune(ssa.node[r])
                 /\ \A h \in gone :
                      /\ get_link_head(ssa, h) = r
                      /\ \A i \in 1..Len(ssa.node[h].outputs) :
                           /\ edge_input_class(ssa, ssa.node[h].outputs[i])
                                  = "LINK"
                           /\ ssa.node[h].outputs[i][1] \in gone ]_vars
    /\ [](AfterLinked => LinkedRoots(ssa) = {})
    /\ []((AfterLinked /\ ssa0 = MakeIR(IrLinkUnused)) =>
            /\ Surviving = {4, 5, 6}
            /\ \A h \in Surviving : ssa.node[h] = ssa0.node[h])

\* o_remove_unused_linked has returned for the IR of the unused link chain
\* and has removed the chain.
C16_Witness ==
    /\ AfterLinked
    /\ ssa0 = MakeIR(IrLinkUnused)
    /\ Removed = {1, 2, 3}

\* The labels of the deferred lookups that label_map lacks, in the order of
\* the lookups.
MissingLabels ==
    SelectSeq([ k \in 1..Len(to_lookup) |-> to_lookup[k].label ],
              LAMBDA l : LabelLookup(Graph, l) = NULL)

\* C17: finish_appending either resolves every deferred lookup (each
\* recorded output slot points at the node label_map gives for its label, no
\* output edge of the graph is null, the deferred list is empty), or, when a
\* deferred label is not in label_map, fails with the error that names the
\* first such label.
C17_FinishAppending ==
    [][ (pc = "appended" /\ last' = "finish_appending") =>
          IF Len(MissingLabels) = 0
          THEN /\ pc' = "ready"
               /\ err' = ""
               /\ to_lookup' = << >>
               /\ \A k \in 1..Len(to_lookup) :
                    nodes'[to_lookup[k].node].outputs[to_lookup[k].output].node
                        = LabelLookup(Graph, to_lookup[k].label)
               /\ \A n \in Range(list') :
                    \A i \in 1..Len(nodes'[n].outputs) :
                        nodes'[n].outputs[i].node # NULL
          ELSE /\ pc' = "error"
               /\ err' = MissingLabel(MissingLabels[1]) ]_vars

\* finish_appending has resolved the two lookups of a branch with two
\* targets.
C17_Witness ==
    /\ pc = "ready"
    /\ last = "finish_appending"
    /\ \E n \in Range(list) :
         /\ IsBranchOp(nodes[n].output_inst.op)
         /\ Len(nodes[n].outputs) = 2
         /\ nodes[n].outputs[1].node # nodes[n].outputs[2].node

\* The nodes of the list that carry the entry label.
EntryNodes == { n \in Range(list) : nodes[n].label = EntryLabel }

\* The number of ASM_LABEL instructions for lbl in stream s.
LabelCount(s, lbl) ==
    Cardinality({ i \in 1..Len(s) : s[i] = Inst("ASM_LABEL", lbl) })

\* C18: once the entry label has been appended, in every later state exactly
\* one node of the graph carries it, the node label_map gives for it: a
\* stream that holds the label twice is rejected with "Duplicate label.", and
\* no pass of optimize prunes the entry block.
C18_OneEntryBlock ==
    /\ [](LabelLookup(Graph, EntryLabel) # NULL =>
            EntryNodes = { LabelLookup(Graph, EntryLabel) })
    /\ [][ (pc = "build" /\ last' = "append_code"
              /\ LabelCount(stream', EntryLabel) >= 2) =>
             (pc' = "error" /\ err' = "Duplicate label.") ]_vars
    /\ [][ LabelLookup(Graph, EntryLabel) # NULL =>
             LabelLookup(Graph, EntryLabel)' = LabelLookup(Graph, EntryLabel)
         ]_vars

\* optimize() has returned and has kept an entry block that has no code and
\* no input.
C18_Witness ==
    /\ pc = "ready"
    /\ last = "optimize"
    /\ \E n \in EntryNodes :
         /\ nodes[n].code = << >>
         /\ nodes[n].inputs = << >>

\* The iterations of the loop of o_remove_stubs on G from list position k
\* on: the graph before, the block visited, the graph after.
RECURSIVE StubsVisits(_, _)
StubsVisits(G, k) ==
    IF k > Len(G.list) THEN << >>
    ELSE LET r == stubs_iter(G, k) IN
         << [before |-> G, it |-> G.list[k], after |-> r.g] >>
             \o StubsVisits(r.g, r.k)

\* The block is not the entry block, has no code, and has no input or
\* exactly one output, which is not the block itself.
IsStub(G, it) ==
    /\ G.nodes[it].label # EntryLabel
    /\ G.nodes[it].code = << >>
    /\ \/ Len(G.nodes[it].inputs) = 0
       \/ /\ Len(G.nodes[it].outputs) = 1
          /\ G.nodes[it].outputs[1].node # it

\* C19: o_remove_stubs deletes the block it visits if and only if the block
\* is not the entry block, has no code, and has no input or exactly one
\* output that is not the block itself; when the block has inputs, every
\* output edge of a predecessor that pointed at the block then points at the
\* block's successor, with its case_value.
C19_StubsDeleted ==
    [][ (pc = "ready" /\ last' = "o_remove_stubs") =>
          LET vs == StubsVisits(Graph, 1) IN
          \A j \in 1..Len(vs) :
            LET v == vs[j]
                deleted == v.it \notin Range(v.after.list)
            IN /\ deleted <=> IsStub(v.before, v.it)
               /\ (deleted /\ Len(v.before.nodes[v.it].inputs) > 0) =>
                     \A p \in Range(v.before.list) :
                       \A i \in 1..Len(v.before.nodes[p].outputs) :
                         v.before.nodes[p].outputs[i].node = v.it =>
                           v.after.nodes[p].outputs[i] =
                             Edge(v.before.nodes[v.it].outputs[1].node,
                                  v.before.nodes[p].outputs[i].case_value)
      ]_vars

\* o_remove_stubs has pruned a labelled block and has pointed an edge of a
\* jump or branch to that label at the block's successor.
C19_Witness ==
    /\ pc = "ready"
    /\ last = "o_remove_stubs"
    /\ \E p \in Range(list) :
         LET t == LabelLookup(Graph, nodes[p].output_inst.arg) IN
         /\ nodes[p].output_inst.arg # NULL
         /\ t # NULL
         /\ t \notin Range(list)
         /\ Len(nodes[p].outputs) >= 1

WeightOf(n, i) ==
    LET k == CHOOSE k \in 1..Len(order_env.es) :
                 order_env.es[k].from = n /\ order_env.es[k].output = i
    IN order_env.es[k].weight

PathPlaces == { <<i, k>> : i \in 1..Len(paths), k \in 1..MaxOf({ Len(paths[j]) : j \in 1..Len(paths) }) }

\* C22: after order(), the estimated size of a node is the size of its code
\* plus twice the size of its terminator when it has two outputs and is not
\* the last block of its path, and plus once the size of its terminator
\* when it is the last block of its path or has one output.
C22_CodeSize ==
    last = "order" =>
      \A pl \in PathPlaces :
        pl[2] <= Len(paths[pl[1]]) =>
          LET path == paths[pl[1]]
              nd == nodes[path[pl[2]]]
              t == op_size(nd.output_inst.op)
              is_back == pl[2] = Len(path)
              est == node_code_size(Graph, path, pl[2])
          IN /\ (Len(nd.outputs) = 2 /\ ~is_back)
                  => est = size_in_bytes(nd.code) + 2 * t
             /\ (is_back \/ Len(nd.outputs) = 1)
                  => est = size_in_bytes(nd.code) + t

\* C22 as the code has it: the terminator is counted twice for a block of
\* two outputs that is the last of its path, once for a block of two outputs
\* that is not, once for a block of one output that is the last of its path,
\* not at all for a block of one output that is not, and once for every
\* other block.
C22_CodeSizeBack ==
    last = "order" =>
      \A pl \in PathPlaces :
        pl[2] <= Len(paths[pl[1]]) =>
          LET path == paths[pl[1]]
              nd == nodes[path[pl[2]]]
              t == op_size(nd.output_inst.op)
              is_back == pl[2] = Len(path)
              est == node_code_size(Graph, path, pl[2])
              n_out == Len(nd.outputs)
          IN /\ (n_out = 2 /\ is_back) => est = size_in_bytes(nd.code) + 2 * t
             /\ (n_out = 2 /\ ~is_back) => est = size_in_bytes(nd.code) + t
             /\ (n_out = 1 /\ is_back) => est = size_in_bytes(nd.code) + t
             /\ (n_out = 1 /\ ~is_back) => est = size_in_bytes(nd.code)
             /\ n_out \notin {1, 2} => est = size_in_bytes(nd.code) + t
             /\ path_code_size(Graph, path) =
                  SumSeq([ k \in 1..Len(path) |->
                             node_code_size(Graph, path, k) ])

\* order() has sized a path that ends in a branch block none of whose
\* outputs follows it, and begins with a block whose single output does.
C22_Witness ==
    /\ last = "order"
    /\ \E i \in 1..Len(paths) :
         LET path == paths[i]
             b == path[Len(path)]
         IN /\ Len(path) >= 2
            /\ Len(nodes[path[1]].outputs) = 1
            /\ Len(nodes[b].outputs) = 2
            /\ node_code_size(Graph, path, Len(path)) = 4
            /\ node_code_size(Graph, path, 1) = size_in_bytes(nodes[path[1]].code)

\* C23: when order() has at most 4 paths, the order of the paths it returns
\* has the least cost of all the permutations of the paths.
C23_OptimalOrder ==
    (last = "order" /\ Len(paths) <= 4) =>
      \E p \in Perms(Len(paths)) :
        /\ result = gather(paths, p, 1)
        /\ \A q \in Perms(Len(paths)) :
             cost_fn(Graph, paths, p) <= cost_fn(Graph, paths, q)

\* order() has returned an order of two to four paths that is not the order
\* the paths were collected in, and that costs less than that one.
C23_Witness ==
    /\ last = "order"
    /\ Len(paths) \in 2..4
    /\ result # gather(paths, [ i \in 1..Len(paths) |-> i ], 1)
    /\ \E p \in Perms(Len(paths)) :
         /\ result = gather(paths, p, 1)
         /\ cost_fn(Graph, paths, p)
              < cost_fn(Graph, paths, [ i \in 1..Len(paths) |-> i ])

\* C24: after calc_liveness the bit of every LOC_ARG locator of the map is
\* set in the in set of the block that has the entry label.
C24_ArgsReadAtEntry ==
    (last = "calc_liveness" /\ LabelLookup(Graph, EntryLabel) # NULL) =>
      \A i \in 1..Len(live_map) :
        lclass(live_map[i]) = "LOC_ARG" =>
          i \in vlive[LabelLookup(Graph, EntryLabel)].in

(***************************************************************************)
(* Properties of build_lvars.                                              *)
(***************************************************************************)
\* The locators live after the first k instructions of node n, by the
\* liveness calc_liveness left: the out set at the end of the block, and
\* before an instruction what it reads and what is live after it and not
\* written by it.
RECURSIVE LiveAtIn(_, _, _, _, _)
LiveAtIn(N, L, map, n, k) ==
    IF k >= Len(N[n].code) THEN L[n].out
    ELSE LET es == do_inst_rw(map, N[n].code[k + 1])
             reads == { es[x].i : x \in { y \in 1..Len(es) : es[y].read } }
             writes == { es[x].i : x \in { y \in 1..Len(es) : es[y].write } }
         IN (LiveAtIn(N, L, map, n, k + 1) \ writes) \cup reads

LiveAt(n, k) == LiveAtIn(nodes, vlive, live_map, n, k)

\* The lvars i and j are live together at some point of some block.
SimLive(i, j) ==
    \E n \in Range(list) : \E k \in 0..Len(nodes[n].code) :
        {i, j} \subseteq LiveAt(n, k)

C26_MaybesRewritten ==
    [][ (pc = "ready" /\ last' = "remove_maybes") =>
          \A n \in Range(list) : \A k \in 1..Len(nodes[n].code) :
            LET inst == nodes[n].code[k]
                after == LiveAtIn(nodes, vlive', live_map', n, k)
            IN /\ ~is_maybe_store(nodes'[n].code[k].op)
               /\ is_maybe_store(inst.op) =>
                    nodes'[n].code[k] =
                      IF map_lookup(live_map', inst.arg) \in after
                      THEN Inst(change_addr_mode(inst.op), inst.arg)
                      ELSE Inst("ASM_PRUNED", NULL)
      ]_vars

\* remove_maybes has made a store of the maybe store whose target is loaded
\* after it and has pruned the maybe store whose target is not read again.
C26_Witness ==
    /\ last = "remove_maybes"
    /\ \E n \in Range(list) :
         /\ Len(nodes[n].code) = 4
         /\ nodes[n].code[1] = Inst("STA_ABSOLUTE", LocX)
         /\ nodes[n].code[3] = Inst("ASM_PRUNED", NULL)
         /\ stream[2] = Inst("MAYBE_STA", LocX)
         /\ stream[4] = Inst("MAYBE_STA", LocX)

(***************************************************************************)
(* Properties of to_linear.                                                *)
(***************************************************************************)
\* The position in `linear` before what to_linear emitted for position i
\* of the order.
RECURSIVE SegStart(_)
SegStart(i) ==
    IF i = 1 THEN 0
    ELSE SegStart(i - 1) + Len(linear_node(Graph, result, i - 1))

\* What `linear` holds for position i of the order after the code of the
\* block.
Emitted(i) ==
    LET whole == Len(linear_node(Graph, result, i))
        term == Len(linear_terminator(Graph, result, i))
    IN SubSeq(linear, SegStart(i) + whole - term + 1, SegStart(i) + whole)

NextOf(i) == IF i + 1 <= Len(result) THEN result[i + 1] ELSE NULL

\* The block a label of `linear` stands for.
NodeOfLabel(lbl) ==
    IF \E n \in Range(result) : get_label(Graph, result, n) = lbl
    THEN CHOOSE n \in Range(result) : get_label(Graph, result, n) = lbl
    ELSE NULL

\* The instruction is taken when the flag the branches test is z.
Taken(inst, z) ==
    \/ inst.op = "JMP_ABSOLUTE"
    \/ inst.op = "BEQ_RELATIVE" /\ z
    \/ inst.op = "BNE_RELATIVE" /\ ~z

\* The block control reaches from the end of the code of the block at
\* position i when the flag is z: the target of the first instruction
\* emitted that is taken, the next block of the order when none is.
RECURSIVE ReachFrom(_, _, _)
ReachFrom(i, z, k) ==
    IF k > Len(Emitted(i)) THEN NextOf(i)
    ELSE IF Taken(Emitted(i)[k], z) THEN NodeOfLabel(Emitted(i)[k].arg)
    ELSE ReachFrom(i, z, k + 1)

\* The positions of the order with a block that is no switch and has one
\* output or two.
JumpPlaces ==
    { i \in 1..Len(result) :
        /\ ~is_switch(Graph, result[i])
        /\ Len(nodes[result[i]].outputs) \in {1, 2} }

\* C27: after to_linear, for a block that is no switch and has one or two
\* outputs, `linear` holds a jump or branch for an output exactly when its
\* target is not the next block of the order, with the terminator's op for
\* output 0 and the inverted branch for output 1; control reaches the target
\* of output 0 when the condition of the branch holds and the target of
\* output 1 when it does not.
C27_Terminators ==
    last = "to_linear" =>
      \A i \in JumpPlaces :
        LET node == nodes[result[i]]
            op == node.output_inst.op
            to(j) == node.outputs[j].node
            jump(j) == IF to(j) = NextOf(i) THEN << >>
                       ELSE << Inst(IF j = 1 THEN op ELSE InvertBranch(op),
                                    get_label(Graph, result, to(j))) >>
            holds(z) == IF op = "BNE_RELATIVE" THEN ~z ELSE z
        IN /\ Len(node.outputs) = 1 =>
                /\ Emitted(i) = jump(1)
                /\ \A z \in BOOLEAN : ReachFrom(i, z, 1) = to(1)
           /\ Len(node.outputs) = 2 =>
                /\ Emitted(i) = jump(1) \o jump(2)
                /\ \A z \in BOOLEAN :
                     ReachFrom(i, z, 1) = IF holds(z) THEN to(1) ELSE to(2)

\* to_linear has emitted, for a block of two outputs whose first target is
\* the next block of the order, the inverted branch to the second target
\* alone, and for another block both the branch and the inverted branch.
C27_Witness ==
    /\ last = "to_linear"
    /\ \E i \in JumpPlaces :
         /\ Len(nodes[result[i]].outputs) = 2
         /\ nodes[result[i]].outputs[1].node = NextOf(i)
         /\ nodes[result[i]].outputs[2].node # NextOf(i)
         /\ Len(Emitted(i)) = 1
         /\ Emitted(i)[1].op = InvertBranch(nodes[result[i]].output_inst.op)
    /\ \E i \in JumpPlaces : Len(Emitted(i)) = 2

\* The positions of the order with a switch block, and the case values of
\* the outputs of a block.
SwitchPlaces == { i \in 1..Len(result) : is_switch(Graph, result[i]) }

CaseValues(n) ==
    { nodes[n].outputs[j].case_value : j \in 1..Len(nodes[n].outputs) }

MinCase(n) == CHOOSE c \in CaseValues(n) : \A d \in CaseValues(n) : c <= d

MaxCase(n) == CHOOSE c \in CaseValues(n) : \A d \in CaseValues(n) : d <= c

TableN(n) == MaxCase(n) - MinCase(n) + 1

\* The length of the tables of the switch blocks before position i of the
\* order.
RECURSIVE TablesBefore(_)
TablesBefore(i) ==
    IF i = 1 THEN 0
    ELSE TablesBefore(i - 1)
         + (IF (i - 1) \in SwitchPlaces THEN 2 * TableN(result[i - 1]) + 2
            ELSE 0)

\* The instruction is a label of a switch table or an entry of one.
IsTable(inst) ==
    inst.op = "ASM_DATA" \/ (inst.op = "ASM_LABEL" /\ "table" \in DOMAIN inst)

\* The offset of the switch instruction of the stream.
StreamOffset ==
    LET k == CHOOSE k \in 1..Len(stream) : stream[k].op = "SWITCH"
    IN stream[k].offset

\* C28: after to_linear, the table of each switch block is the label of its
\* lo table, N entries, the label of its hi table and N entries, with
\* N = max_case - min_case + 1; entry case_value - min_case is the label of
\* the edge with that case value, advanced by -1; the offset of the
\* terminator's argument is advanced by -min_case; and every label and
\* entry of a table comes after all the code.
C28_SwitchTables ==
    last = "to_linear" =>
      LET code_len == SegStart(Len(result) + 1) IN
      /\ Len(linear) = code_len + TablesBefore(Len(result) + 1)
      /\ \A p \in 1..Len(linear) : IsTable(linear[p]) <=> p > code_len
      /\ \A i \in SwitchPlaces :
           LET n == result[i]
               s == code_len + TablesBefore(i)
               size == TableN(n)
               cfg == nodes[n].output_inst.arg
           IN /\ linear[s + 1] = TableLabel("lo", cfg)
              /\ linear[s + size + 2] = TableLabel("hi", cfg)
              /\ \A k \in 1..size :
                   /\ linear[s + 1 + k].op = "ASM_DATA"
                   /\ linear[s + 1 + k].is = "IS_PTR"
                   /\ linear[s + size + 2 + k].op = "ASM_DATA"
                   /\ linear[s + size + 2 + k].is = "IS_PTR_HI"
              /\ \A c \in CaseValues(n) :
                   \E j \in 1..Len(nodes[n].outputs) :
                     LET e == TableEntry(get_label(Graph, result,
                                                   nodes[n].outputs[j].node))
                         k == c - MinCase(n) + 1
                     IN /\ nodes[n].outputs[j].case_value = c
                        /\ linear[s + 1 + k] = TableData(e, "IS_PTR")
                        /\ linear[s + size + 2 + k] = TableData(e, "IS_PTR_HI")
              /\ nodes[n].output_inst.offset = StreamOffset - MinCase(n)
              /\ Emitted(i) = << nodes[n].output_inst >>

\* to_linear has emitted, after code that follows the switch block, the
\* tables of a switch whose least case value is not 0, whose case values
\* leave an entry unused and whose instruction came with an offset.
C28_Witness ==
    /\ last = "to_linear"
    /\ \E i \in SwitchPlaces :
         /\ i < Len(result)
         /\ MinCase(result[i]) > 0
         /\ TableN(result[i]) > Cardinality(CaseValues(result[i]))
         /\ StreamOffset > 0
         /\ nodes[result[i]].code # << >>
    /\ \E p \in 1..Len(linear) :
         linear[p].op = "ASM_DATA" /\ linear[p].arg = NULL

\* The block has at least two outputs and they all point to one target.
SameTarget(G, n) ==
    LET outs == G.nodes[n].outputs IN
    /\ Len(outs) >= 2
    /\ \A i \in 1..Len(outs) : outs[i].node = outs[1].node

\* The block has at least two outputs and they are all the same edge: one
\* target and one case value.
SameEdge(G, n) ==
    LET outs == G.nodes[n].outputs IN
    /\ Len(outs) >= 2
    /\ \A i \in 1..Len(outs) : outs[i] = outs[1]

\* The number of edges from block n to block t, counted at n and at t.
OutputsTo(G, n, t) ==
    Cardinality({ i \in 1..Len(G.nodes[n].outputs) :
                    G.nodes[n].outputs[i].node = t })

InputsFrom(G, n, t) ==
    Cardinality({ i \in 1..Len(G.nodes[t].inputs) : G.nodes[t].inputs[i] = n })

\* What o_remove_branches does to the blocks picked by Collapses: a block it
\* picks becomes a single JMP_ABSOLUTE with one output, to the target it had;
\* any other block keeps its terminator and its outputs; and every block has
\* as many inputs from a block as that block has outputs to it.
BranchesRewritten(Collapses(_, _)) ==
    (pc = "ready" /\ last' = "o_remove_branches") =>
      /\ \A n \in Range(list) :
           IF Collapses(Graph, n)
           THEN /\ nodes'[n].output_inst = JmpInst
                /\ Len(nodes'[n].outputs) = 1
                /\ nodes'[n].outputs[1].node = nodes[n].outputs[1].node
           ELSE /\ nodes'[n].output_inst = nodes[n].output_inst
                /\ nodes'[n].outputs = nodes[n].outputs
      /\ \A n \in Range(list), t \in Range(list) :
           InputsFrom(Graph, n, t)' = OutputsTo(Graph, n, t)'

\* C30: o_remove_branches rewrites a block to a single JMP_ABSOLUTE with one
\* output if and only if the block has at least two outputs that all point
\* to the same target; the other blocks are left unchanged, and the target
\* loses one input per removed edge.
C30_BranchesToJumps == [][ BranchesRewritten(SameTarget) ]_vars

\* The same with "the same target" read as "the same edge".
C30_EqualEdgesToJumps == [][ BranchesRewritten(SameEdge) ]_vars

\* o_remove_branches has run on a graph with a switch block whose cases all
\* point to one target.
C30_SwitchSameTarget ==
    /\ pc = "ready"
    /\ last = "o_remove_branches"
    /\ \E n \in Range(list) : is_switch(Graph, n) /\ SameTarget(Graph, n)

\* The iterations of the loop of append_code on stream s from position i:
\* the graph before, the position, the graph after and the next position.
RECURSIVE AppendVisits(_, _, _)
AppendVisits(G, s, i) ==
    IF i > Len(s) \/ G.err # "" THEN << >>
    ELSE LET r == AppendInst(G, s, i) IN
         << [before |-> G, i |-> i, after |-> r.g, next |-> r.i] >>
         \o AppendVisits(r.g, s, r.i)

\* The instruction after position i of the stream is the inverse branch of
\* the branch at position i.
InversePair(s, i) ==
    /\ i + 1 <= Len(s)
    /\ s[i].op = "BEQ_RELATIVE" <=> s[i + 1].op = "BNE_RELATIVE"
    /\ s[i].op = "BNE_RELATIVE" <=> s[i + 1].op = "BEQ_RELATIVE"

\* The deferred lookup of output k of block n, as a set of labels.
LookupOf(G, n, k) ==
    { G.to_lookup[j].label :
        j \in { j \in 1..Len(G.to_lookup) :
                  G.to_lookup[j].node = n /\ G.to_lookup[j].output = k } }

\* The iterations of the loop of append_code that took a branch.
BranchVisits ==
    LET vs == AppendVisits(NewGraph, stream, 1) IN
    { vs[j] : j \in { j \in 1..Len(vs) : IsBranchOp(stream[vs[j].i].op) } }

\* C29: in append_code a conditional branch becomes the terminator of the
\* current block, with its target as output 0.  If the next instruction of
\* the stream is the inverse branch, the target of that instruction becomes
\* output 1, the instruction is skipped, and the new current block has no
\* edge from the branch block; otherwise a new block without label is
\* started, which is output 1 of the branch block.
C29_AppendBranch ==
    (last \in {"append_code", "finish_appending"} /\ err = "") =>
      \A v \in BranchVisits :
        LET cur == Back(v.before)
            new == Back(v.after)
            inst == stream[v.i]
            done == last = "finish_appending"
        IN /\ nodes[cur].output_inst = inst
           /\ Len(nodes[cur].outputs) = 2
           /\ new = Len(v.before.nodes) + 1
           /\ nodes[new].label = NULL
           /\ LookupOf(v.after, cur, 1) = {inst.arg}
           /\ done => nodes[cur].outputs[1].node = LabelLookup(Graph, inst.arg)
           /\ IF InversePair(stream, v.i)
              THEN /\ v.next = v.i + 2
                   /\ LookupOf(v.after, cur, 2) = {stream[v.i + 1].arg}
                   /\ done => nodes[cur].outputs[2].node =
                                LabelLookup(Graph, stream[v.i + 1].arg)
                   /\ nodes[new].inputs = << >>
                   /\ \A k \in 1..2 : nodes[cur].outputs[k].node # new
              ELSE /\ v.next = v.i + 1
                   /\ LookupOf(v.after, cur, 2) = {}
                   /\ nodes[cur].outputs[2] = Edge(new, -1)
                   /\ nodes[new].inputs = << cur >>

\* append_code has built a graph from a stream in which one branch is
\* followed by its inverse and another is not.
C29_Witness ==
    /\ last = "append_code"
    /\ err = ""
    /\ \E v \in BranchVisits : InversePair(stream, v.i)
    /\ \E v \in BranchVisits : ~InversePair(stream, v.i)

\* A step of the worklist loop of o_remove_unused_linked.
LinkedStep == ssa_pc = "linked" /\ ssa_worklist # << >> /\ ssa_pc' = "linked"

\* o_remove_unused_linked terminates: its worklist becomes empty.
LinkedTerminates == (ssa_pc = "linked") ~> (ssa_worklist = << >>)

\* C31: o_remove_unused_linked terminates on every finite IR, and each
\* iteration of its worklist loop removes at least one node.
C31_EachIterationRemoves ==
    /\ LinkedTerminates
    /\ [][ LinkedStep => Len(ssa'.order) < Len(ssa.order) ]_vars

\* C31 with the iterations that stop at `continue`: o_remove_unused_linked
\* terminates, and each iteration of its worklist loop removes at least one
\* node or leaves the IR's nodes as they are and the worklist one shorter.
C31_RemovesOrShrinks ==
    /\ LinkedTerminates
    /\ [][ LinkedStep =>
             \/ Len(ssa'.order) < Len(ssa.order)
             \/ /\ ssa'.order = ssa.order
                /\ ssa_worklist' = Take(ssa_worklist, Len(ssa_worklist) - 1)
                /\ \A h \in Range(ssa.order) :
                     /\ ssa'.node[h].inputs = ssa.node[h].inputs
                     /\ ssa'.node[h].outputs = ssa.node[h].outputs ]_vars

\* o_remove_unused_linked has returned after iterations that removed nodes
\* and an iteration that removed none: a node it had in its worklist is left.
C31_Witness ==
    /\ AfterLinked
    /\ ssa_changed
    /\ \E h \in Range(ssa.order) : can_prune(ssa.node[h])

\* The loop over `linked` of o_remove_unused_linked from position k on: each
\* node with the IR and the worklist at its call of prune.
RECURSIVE LinkedPrunes(_, _, _, _)
LinkedPrunes(W, linked, k, root) ==
    IF k > Len(linked) THEN << >>
    ELSE LET h == linked[k]
             W1 == wl_push_all(W, linked_repush(W.S, h, root), 1)
         IN << [h |-> h, W |-> W1] >>
            \o LinkedPrunes([W1 EXCEPT !.S = ssa_prune(W1.S, h)],
                            linked, k + 1, root)

\* The iteration of the worklist loop that the state is about to run: the
\* node it pops, the result of _build_linked, and the calls of prune.
NextPop == wl_top([S |-> ssa, wl |-> ssa_worklist])

NextLinked ==
    build_linked(wl_pop([S |-> ssa, wl |-> ssa_worklist]).S, NextPop, 1, << >>)

NextPrunes ==
    IF NextLinked.ok
    THEN LinkedPrunes(wl_pop([S |-> ssa, wl |-> ssa_worklist]),
                      NextLinked.vec, 1, NextPop)
    ELSE << >>

\* C32: in o_remove_unused_linked every node popped from the worklist is a
\* node that was not pruned and that satisfies can_prune, `linked` is not
\* empty when _build_linked succeeds, and every node is pruned once, at a
\* moment when it is not in the worklist and FLAG_IN_WORKLIST is clear.
C32_LinkedAsserts ==
    (ssa_pc = "linked" /\ ssa_worklist # << >>) =>
      /\ NextPop \in Range(ssa.order)
      /\ can_prune(ssa.node[NextPop])
      /\ NextLinked.ok => Len(NextLinked.vec) > 0
      /\ \A j \in 1..Len(NextPrunes) :
           LET v == NextPrunes[j] IN
           /\ v.h \in Range(v.W.S.order)
           /\ "IN_WORKLIST" \notin v.W.S.node[v.h].flags
           /\ v.h \notin Range(v.W.wl)

\* The loop is about to prune a root with a link member, and the member has
\* an input that is pushed or is in the worklist already.
C32_Witness ==
    /\ ssa_pc = "linked"
    /\ ssa_worklist # << >>
    /\ Len(NextPrunes) >= 2
    /\ \E j \in 1..Len(NextPrunes) :
         /\ NextPrunes[j].h # NextPop
         /\ NextPrunes[j].W.wl # << >>

\* No node of S is reached from itself by following inputs.
Acyclic(S) ==
    \A h \in Range(S.order) :
      h \notin InputClosure(S, Range(node_inputs(S, h)))

\* C33: a single call of o_remove_unused_ssa reaches the fixed point: a
\* second call made right after it removes no node and returns false.
C33_SecondCallNoChange ==
    Len(ssa_hist) = 2 =>
      /\ ~ssa_hist[2].changed
      /\ ssa_hist[2].order = ssa_hist[1].order

\* C33 for the IRs in which no node is reached from itself by following
\* inputs.
C33_SecondCallNoChangeAcyclic ==
    (Len(ssa_hist) = 2 /\ Acyclic(ssa0)) =>
      /\ ~ssa_hist[2].changed
      /\ ssa_hist[2].order = ssa_hist[1].order

\* A second call of o_remove_unused_ssa has returned on an IR without a
\* cycle of which the first call had removed a node and kept a node.
C33_Witness ==
    /\ Len(ssa_hist) = 2
    /\ Acyclic(ssa0)
    /\ ssa_hist[1].changed
    /\ ssa_hist[1].order # << >>

\* The loop of calc_liveness run step by step returns what calc_liveness
\* returns.
LiveLoopAgrees ==
    live_pc = "done" => vlive = calc_liveness(Graph, live_map)

\* C34: calc_liveness terminates on every graph, with cycles and with blocks
\* that reach no return block or without: the in set of each block only
\* grows while its loop runs, every block is processed at least once, and
\* the worklist is empty when the final out sets are computed.
C34_LivenessTerminates ==
    /\ (live_pc = "loop") ~> (live_pc = "done")
    /\ [][ live_pc = "loop" =>
             \A n \in Range(list) :
               live_st.L[n].in \subseteq live_st'.L[n].in ]_vars
    /\ [](live_pc = "done" =>
            /\ live_st.processed = Range(list)
            /\ live_st.wl = << >>
            /\ live_st.inwl = {})

\* calc_liveness has returned on a graph with a block that is on a cycle and
\* reaches no block without outputs, and with a block whose in set has grown
\* in the loop.
C34_Witness ==
    /\ live_pc = "done"
    /\ \E n \in Range(list) :
         /\ n \in OutputClosure(nodes, SuccOf(nodes, n), Range(list))
         /\ \A m \in OutputClosure(nodes, {n}, Range(list)) :
              Len(nodes[m].outputs) > 0
    /\ \E n \in Range(list) :
         vlive[n].in \ GenOf(live_map, nodes[n].code) # {}

\* The live set before instruction k + 1 of the code, walked back from the
\* set `live` after its last instruction with the update of build_lvars and
\* remove_maybes: a read sets the bit, a write that is no read clears it.
RECURSIVE BackLive(_, _, _, _)
BackLive(map, code, k, live) ==
    IF k = 0 THEN live
    ELSE BackLive(map, code, k - 1,
                  maybes_rw_all(live, do_inst_rw(map, code[k]), 1))

\* C35: after calc_liveness, alone or in remove_maybes, for every block n the
\* walk back over the code of n, started from n.out, ends with n.in.
C35_BlockAndInstLiveness ==
    last \in {"calc_liveness", "remove_maybes"} =>
      \A n \in Range(list) :
        BackLive(live_map, nodes[n].code, Len(nodes[n].code), vlive[n].out)
          = vlive[n].in

\* calc_liveness has returned on a graph with a block that writes a locator
\* that is live after it, and with a block that reads a locator that is not.
C35_Witness ==
    /\ last = "calc_liveness"
    /\ \E n \in Range(list) : vlive[n].out \ vlive[n].in # {}
    /\ \E n \in Range(list) : vlive[n].in \ vlive[n].out # {}

\* The places of `linear` with a jump or a branch, those with an entry of a
\* switch table that is a label, and the labels they name.
JumpInsts ==
    { p \in 1..Len(linear) :
        IsJump(linear[p].op) \/ IsBranchOp(linear[p].op) }

LabelEntries ==
    { p \in 1..Len(linear) :
        linear[p].op = "ASM_DATA" /\ linear[p].arg # NULL }

UsedLabels == { linear[p].arg : p \in JumpInsts \cup LabelEntries }

\* The places of `linear` with an ASM_LABEL of lbl that is no label of a
\* switch table.
LabelDefs(lbl) ==
    { p \in 1..Len(linear) :
        /\ linear[p].op = "ASM_LABEL"
        /\ ~IsTable(linear[p])
        /\ linear[p].arg = lbl }

\* The block n is the target of an output of a block of the order.
IsTarget(n) ==
    \E m \in Range(result) :
      \E j \in 1..Len(nodes[m].outputs) : nodes[m].outputs[j].node = n

\* C36: after to_linear, every label that is the argument of a jump or a
\* branch of `linear` or an entry of a switch table is the argument of
\* exactly one ASM_LABEL of `linear`; that ASM_LABEL is the first
\* instruction emitted for a block of the order that is the target of an
\* output and has this label, and the code of the block follows it.
C36_LabelsDefinedOnce ==
    last = "to_linear" =>
      \A lbl \in UsedLabels :
        /\ Cardinality(LabelDefs(lbl)) = 1
        /\ \E i \in 1..Len(result) :
             LET code == nodes[result[i]].code IN
             /\ get_label(Graph, result, result[i]) = lbl
             /\ IsTarget(result[i])
             /\ LabelDefs(lbl) = { SegStart(i) + 1 }
             /\ SubSeq(linear, SegStart(i) + 2, SegStart(i) + 1 + Len(code))
                  = code

\* to_linear has emitted a jump or a branch to a block with one input that
\* is not the block before it in the order, and has emitted no label for
\* another block.
C36_Witness ==
    /\ last = "to_linear"
    /\ \E p \in JumpInsts : \E i \in 1..Len(result) :
         /\ get_label(Graph, result, result[i]) = linear[p].arg
         /\ Len(nodes[result[i]].inputs) = 1
         /\ nodes[result[i]].label # EntryLabel
    /\ \E i \in 1..Len(result) :
         LabelDefs(get_label(Graph, result, result[i])) = {}

\* C37: after to_linear on an order with any number of switch blocks, every
\* entry of the table of a switch block whose case value is the case value
\* of no output of the block is const_byte(0), in the lo table and in the
\* hi table, and every other entry is the label of the target of an output
\* of the block with that case value.
C37_TablesApart ==
    last = "to_linear" =>
      LET code_len == SegStart(Len(result) + 1) IN
      \A i \in SwitchPlaces :
        LET n == result[i]
            s == code_len + TablesBefore(i)
            size == TableN(n)
        IN \A k \in 1..size :
             LET c == MinCase(n) + k - 1 IN
             IF c \in CaseValues(n)
             THEN \E j \in 1..Len(nodes[n].outputs) :
                    /\ nodes[n].outputs[j].case_value = c
                    /\ linear[s + 1 + k].arg
                         = get_label(Graph, result, nodes[n].outputs[j].node)
                    /\ linear[s + size + 2 + k].arg = linear[s + 1 + k].arg
             ELSE /\ linear[s + 1 + k] = TableData(ConstByte, "IS_PTR")
                  /\ linear[s + size + 2 + k]
                       = TableData(ConstByte, "IS_PTR_HI")

\* C38: in every state of the graph, for every pair of nodes of the pool,
\* pruned or not, the second has the first in its inputs as many times as
\* the first has output edges to the second; edges whose lookup is yet
\* to be resolved (null) count for no node.
C38_EdgeMultisets ==
    \A n \in 1..Len(nodes) : \A t \in 1..Len(nodes) :
        InputsFrom(Graph, n, t) = OutputsTo(Graph, n, t)

\* o_remove_stubs has pruned a block, which is left without outputs and
\* without inputs, and a block of the graph has two output edges to one
\* block, which has it twice in its inputs.
C38_Witness ==
    /\ pc = "ready"
    /\ changed
    /\ last = "o_remove_stubs"
    /\ \E m \in 1..Len(nodes) :
         /\ m \notin Live
         /\ nodes[m].outputs = << >>
         /\ nodes[m].inputs = << >>
    /\ \E n \in Live : \E t \in Live :
         /\ OutputsTo(Graph, n, t) = 2
         /\ InputsFrom(Graph, n, t) = 2

=============================================================================
